---- MODULE Spec2Model ----
(***************************************************************************)
(* The topic delivery engine of the in-memory pub/sub broker               *)
(* (src/pubsub-system/src): the topic registry (TopicManager), one Topic   *)
(* per name with its subscriber set, replay ring, ingest queue and         *)
(* delivery worker, the subscriber handles, and the part of the websocket  *)
(* session handler that subscribes, unsubscribes and publishes.            *)
(*                                                                         *)
(* Scheduling.  The server is one asyncio event loop: a coroutine runs     *)
(* without interruption from one await to the next, so each action below   *)
(* is the code between two suspension points.  The threading.Lock objects  *)
(* are taken and released inside such a step; `lock` records the holder of *)
(* a topic's mutex between steps.  websocket.send_json is modelled as      *)
(* writing its frame when called and suspending afterwards.                *)
(***************************************************************************)
EXTENDS Integers, Sequences, FiniteSets, TLC

\* ---------------------------------------------------------------- bounds
\* Topic names and client ids (one websocket session per client id).
Names == {"t"}
Clients == {"c1", "c2"}

\* Number of publishes that are given a message id.
MaxMsgs == 2
\* Number of Topic objects the registry constructs.
MaxTopics == 2
\* Number of subscribe frames a session gets a Subscriber handle for.
MaxSubs == 1
\* Topic._batch_size (10 in the program, scaled down).
BatchSize == 2
\* asyncio.Queue(maxsize=10000), scaled down.
QueueMax == 1
\* replay_buffer_size (100 in the program, scaled down).
RingCap == 1
\* The largest last_n a subscribe frame asks for.
MaxLastN == 2
\* The capacity of the RingBuffer exercised on its own, and the appends made.
BufCap == 3
MaxAppends == 4
\* Number of error frames a session is sent.
MaxErrors == 2
\* The longest topic name TopicCreate admits (255 in the program, scaled
\* down).
NameMax == 2
\* Number of callers that run TopicManager and Topic operations at once.
MaxThreads == 2

Topics == 1..MaxTopics
Handles == 1..(MaxSubs * Cardinality(Clients))
Msgs == 1..MaxMsgs
LastNs == {0, MaxLastN}
Threads == 1..MaxThreads
\* TopicManager._global_lock, Topic._lock and RingBuffer._lock of one topic.
Mutexes == {"registry", "topic", "ring"}

VARIABLES
    topics,      \* TopicManager._topics: name -> Topic object (0: absent)
    ntopics,     \* Topic objects constructed so far
    subscribers, \* Topic._subscribers: client id -> handle (0: absent)
    ring,        \* Topic._message_buffer (most recent last)
    queue,       \* Topic._message_queue
    running,     \* Topic._running
    wpc,         \* where the topic's _delivery_worker task is suspended
    batch,       \* the worker's local `batch`
    cancelReq,   \* task.cancel() was called and not yet raised in the worker
    sends,       \* the flush's send tasks: handle -> [st, pos]
    lock,        \* holder of Topic._lock between steps
    published,   \* Topic._messages_published
    msgCount,    \* Topic._message_count
    delivered,   \* Topic._messages_delivered
    dropped,     \* Topic._messages_dropped
    enqueued,    \* history: successful put_nowait calls
    dstate,      \* progress of delete_topic on a Topic object
    nhandles,    \* Subscriber objects constructed so far
    hclient,     \* Subscriber.client_id
    htopic,      \* the Topic a Subscriber was attached to
    closed,      \* Subscriber._closed
    replayOf,    \* history: the replay prefix subscribe returned for a handle
    attachPos,   \* history: ids allocated when the handle was attached
    nextId,      \* next message id (uuid4 in the program: fresh every time)
    sess,        \* a session's _handle_subscribe coroutine: [st, h, pend]
    sink,        \* frames written to a client's websocket, oldest first
    sessions,    \* the client ids with an open websocket session
    trace,       \* whether sink, replayOf and attachPos are being recorded
    calls,       \* whether create and delete calls are recorded in ret
    shut,        \* progress of the application's graceful shutdown
    rb,          \* a RingBuffer on its own: RingBuffer._buffer
    rlog,        \* history: every item appended to that RingBuffer
    rread,       \* the last get_last_n on it: [n, buf, out], buf the buffer then
    wire,        \* whether the session layer's error frames are recorded in sink
    track,       \* whether peak is being recorded
    peak,        \* history: the most subscribers a Topic has had at once
    http,        \* the last POST /topics request body and its status: [name, status]
    replayBufferSize, \* TopicManager._replay_buffer_size, the capacity of every ring
    held,        \* holder of each mutex, lock operation by lock operation (0: free)
    thread,      \* a caller's operation and its next lock operation: [op, pc]
    checked,     \* the last validate_topic_name call: [name, result]
    ret          \* the registry call made in the last step and what it returned

auxVars == <<replayBufferSize, held, thread, checked>>

vars == <<topics, ntopics, subscribers, ring, queue, running, wpc, batch,
          cancelReq, sends, lock, published, msgCount, delivered, dropped,
          enqueued, dstate, nhandles, hclient, htopic, closed, replayOf,
          attachPos, nextId, sess, sink, sessions, trace, calls, shut, rb, rlog, rread,
          wire, track, peak, http, auxVars, ret>>

topicVars == <<ring, queue, published, msgCount, dropped, enqueued>>
workerVars == <<wpc, batch, cancelReq, sends, delivered>>
handleVars == <<nhandles, hclient, htopic, closed, replayOf, attachPos>>
switchVars == <<sessions, trace, calls, shut, rb, rlog, rread, wire, track, http, auxVars>>
envVars == <<switchVars, peak>>

\* ---------------------------------------------------------------- helpers
NoSend == [st |-> "none", pos |-> 0]
FailedSend == [st |-> "fail", pos |-> 0]
NoRet == [op |-> "none", name |-> "", res |-> "none", val |-> 0]
NoRead == [n |-> 0, buf |-> <<>>, out |-> <<>>]
NoRequest == [name |-> <<>>, status |-> 0]
IdleThread == [op |-> "idle", pc |-> 0]
NoCheck == [name |-> <<>>, result |-> FALSE]
GoneSess == [st |-> "gone", h |-> 0, pend |-> <<>>]

\* What a create or delete call leaves in ret.
CallRet(r) == IF calls THEN r ELSE NoRet
IdleSess == [st |-> "idle", h |-> 0, pend |-> <<>>]

Range(s) == {s[i] : i \in 1..Len(s)}

\* An append that drops the newest item when over capacity.
BufferAppendDropNewest(r, x, cap) ==
    IF Len(r) >= cap THEN r ELSE Append(r, x)

\* RingBuffer.append on a buffer of capacity cap: append, then drop the
\* oldest item when over capacity.
BufferAppend(r, x, cap) ==
    LET a == Append(r, x)
    IN  IF Len(a) > cap THEN Tail(a) ELSE a

\* A ring that takes a new item at its front.
RingPrepend(r, x) ==
    LET a == <<x>> \o r
    IN  IF Len(a) > replayBufferSize THEN SubSeq(a, 1, Len(a) - 1) ELSE a

\* RingBuffer.append on a topic's replay ring.
RingAppend(r, x) == BufferAppend(r, x, replayBufferSize)

\* A get_last_n that slices from the front of the buffer.
GetFirstN(r, n) ==
    IF n <= 0 THEN <<>>
    ELSE IF n < Len(r) THEN SubSeq(r, 1, n)
    ELSE r

\* RingBuffer.get_last_n: a copy of the last n items, all of them if n >= len.
GetLastN(r, n) ==
    IF n <= 0 THEN <<>>
    ELSE IF n < Len(r) THEN SubSeq(r, Len(r) - n + 1, Len(r))
    ELSE r

\* A queue that reports full one item late.
QueueFullLate(q) == Len(q) > QueueMax

\* asyncio.Queue.full(), the test put_nowait makes before it raises QueueFull.
QueueFull(q) == Len(q) >= QueueMax

\* len(self._subscribers)
SubscriberCount(t) == Cardinality({c \in Clients : subscribers[t][c] # 0})

\* list(self._subscribers.values())
SubscriberHandles(t) == {subscribers[t][c] : c \in Clients} \ {0}

\* The topic mutex kept by the worker for the whole flush.
LockHeldDuringSends == "worker"

\* The holder of Topic._lock once _flush_batch has taken its snapshot: the
\* `with` block ends before the sends are created.
LockAfterSnapshot == "free"

\* A delete that leaves the registry entry in place.
RegistryKeep(reg, n) == reg

\* self._topics.pop(name)
RegistryPop(reg, n) == [reg EXCEPT ![n] = 0]

\* ---------------------------------------------------------------- Init
\* An empty registry, no handle, no frame sent.
InitBroker ==
    /\ topics = [n \in Names |-> 0]
    /\ ntopics = 0
    /\ subscribers = [t \in Topics |-> [c \in Clients |-> 0]]
    /\ ring = [t \in Topics |-> <<>>]
    /\ queue = [t \in Topics |-> <<>>]
    /\ running = [t \in Topics |-> FALSE]
    /\ wpc = [t \in Topics |-> "none"]
    /\ batch = [t \in Topics |-> <<>>]
    /\ cancelReq = [t \in Topics |-> FALSE]
    /\ sends = [t \in Topics |-> [h \in Handles |-> NoSend]]
    /\ lock = [t \in Topics |-> "free"]
    /\ published = [t \in Topics |-> 0]
    /\ msgCount = [t \in Topics |-> 0]
    /\ delivered = [t \in Topics |-> 0]
    /\ dropped = [t \in Topics |-> 0]
    /\ enqueued = [t \in Topics |-> 0]
    /\ dstate = [t \in Topics |-> "live"]
    /\ nhandles = 0
    /\ hclient = [h \in Handles |-> "c1"]
    /\ htopic = [h \in Handles |-> 0]
    /\ closed = [h \in Handles |-> FALSE]
    /\ replayOf = [h \in Handles |-> <<>>]
    /\ attachPos = [h \in Handles |-> 0]
    /\ nextId = 1
    /\ sess = [c \in Clients |-> IdleSess]
    /\ sink = [c \in Clients |-> <<>>]
    /\ ret = NoRet
    /\ shut = "no"
    /\ rb = <<>>
    /\ rlog = <<>>
    /\ rread = NoRead
    /\ peak = [t \in Topics |-> 0]
    /\ http = NoRequest
    /\ held = [m \in Mutexes |-> 0]
    /\ thread = [th \in Threads |-> IdleThread]
    /\ checked = NoCheck

\* One session, its outbound frames recorded.
Init ==
    /\ InitBroker
    /\ sessions = {"c1"}
    /\ trace = TRUE
    /\ calls = FALSE
    /\ wire = FALSE
    /\ track = FALSE
    /\ replayBufferSize = RingCap

\* One session, the engine's own state only.
InitCore ==
    /\ InitBroker
    /\ sessions = {"c1"}
    /\ trace = FALSE
    /\ calls = FALSE
    /\ wire = FALSE
    /\ track = FALSE
    /\ replayBufferSize = RingCap

\* One session, the engine's own state and every registry call recorded.
InitCalls ==
    /\ InitBroker
    /\ sessions = {"c1"}
    /\ trace = FALSE
    /\ calls = TRUE
    /\ wire = FALSE
    /\ track = FALSE
    /\ replayBufferSize = RingCap

\* Every client connected, outbound frames recorded.
InitAll ==
    /\ InitBroker
    /\ sessions = Clients
    /\ trace = TRUE
    /\ calls = FALSE
    /\ wire = FALSE
    /\ track = FALSE
    /\ replayBufferSize = RingCap

\* ---------------------------------------------------------------- registry
\* A create that constructs a Topic whether or not the name is registered.
CreateTopicAnew(n) ==
    /\ shut = "no"
    /\ ret' = CallRet([NoRet EXCEPT !.op = "create", !.name = n, !.res = "ok"])
    /\ ntopics < MaxTopics
    /\ ntopics' = ntopics + 1
    /\ topics' = [topics EXCEPT ![n] = ntopics + 1]
    /\ running' = [running EXCEPT ![ntopics + 1] = TRUE]
    /\ wpc' = [wpc EXCEPT ![ntopics + 1] = "wait"]
    /\ UNCHANGED <<subscribers, topicVars, batch, cancelReq, sends, lock,
                   delivered, dstate, handleVars, nextId, sess, sink>>
    /\ UNCHANGED envVars

\* TopicManager.create_topic: idempotent; a new Topic gets its worker started.
\* The endpoint refuses the request once shutdown has begun.
CreateTopic(n) ==
    /\ shut = "no"
    /\ ret' = CallRet([NoRet EXCEPT !.op = "create", !.name = n, !.res = "ok"])
    /\ IF topics[n] = 0
       THEN /\ ntopics < MaxTopics
            /\ ntopics' = ntopics + 1
            /\ topics' = [topics EXCEPT ![n] = ntopics + 1]
            /\ running' = [running EXCEPT ![ntopics + 1] = TRUE]
            /\ wpc' = [wpc EXCEPT ![ntopics + 1] = "wait"]
       ELSE UNCHANGED <<topics, ntopics, running, wpc>>
    /\ UNCHANGED <<subscribers, topicVars, batch, cancelReq, sends, lock,
                   delivered, dstate, handleVars, nextId, sess, sink>>
    /\ UNCHANGED envVars

\* A publish that discards on overflow without counting the drop.
PublishMessageUncounted(n, t, id) ==
    /\ lock[t] = "free"
    /\ ring' = [ring EXCEPT ![t] = RingAppend(ring[t], id)]
    /\ msgCount' = [msgCount EXCEPT ![t] = @ + 1]
    /\ published' = [published EXCEPT ![t] = @ + 1]
    /\ IF QueueFull(queue[t])
       THEN UNCHANGED <<queue, enqueued, dropped>>
       ELSE /\ queue' = [queue EXCEPT ![t] = Append(queue[t], id)]
            /\ enqueued' = [enqueued EXCEPT ![t] = @ + 1]
            /\ UNCHANGED dropped
    /\ ret' = [NoRet EXCEPT !.op = "publish", !.name = n, !.res = "ok",
                             !.val = SubscriberCount(t)]

\* A publish that leaves a dropped message out of _message_count.
PublishMessageCountEnqueued(n, t, id) ==
    /\ lock[t] = "free"
    /\ ring' = [ring EXCEPT ![t] = RingAppend(ring[t], id)]
    /\ published' = [published EXCEPT ![t] = @ + 1]
    /\ IF QueueFull(queue[t])
       THEN /\ dropped' = [dropped EXCEPT ![t] = @ + 1]
            /\ UNCHANGED <<queue, enqueued, msgCount>>
       ELSE /\ queue' = [queue EXCEPT ![t] = Append(queue[t], id)]
            /\ enqueued' = [enqueued EXCEPT ![t] = @ + 1]
            /\ msgCount' = [msgCount EXCEPT ![t] = @ + 1]
            /\ UNCHANGED dropped
    /\ ret' = [NoRet EXCEPT !.op = "publish", !.name = n, !.res = "ok",
                             !.val = SubscriberCount(t)]

\* Topic.publish_message for the topic registered as n: ring append and
\* counters under the topic mutex, then put_nowait; QueueFull is counted in
\* _messages_dropped.  The value returned is the subscriber count read in
\* the critical section.
PublishMessage(n, t, id) ==
    /\ lock[t] = "free"
    /\ ring' = [ring EXCEPT ![t] = RingAppend(ring[t], id)]
    /\ msgCount' = [msgCount EXCEPT ![t] = @ + 1]
    /\ published' = [published EXCEPT ![t] = @ + 1]
    /\ IF QueueFull(queue[t])
       THEN /\ dropped' = [dropped EXCEPT ![t] = @ + 1]
            /\ UNCHANGED <<queue, enqueued>>
       ELSE /\ queue' = [queue EXCEPT ![t] = Append(queue[t], id)]
            /\ enqueued' = [enqueued EXCEPT ![t] = @ + 1]
            /\ UNCHANGED dropped
    /\ ret' = [NoRet EXCEPT !.op = "publish", !.name = n, !.res = "ok",
                             !.val = SubscriberCount(t)]

\* TopicManager.publish: look the topic up, None when absent, else a fresh
\* message id and Topic.publish_message.
Publish(n) ==
    /\ nextId <= MaxMsgs
    /\ IF topics[n] = 0
       THEN /\ ret' = [NoRet EXCEPT !.op = "publish", !.name = n,
                                     !.res = "notfound"]
            /\ UNCHANGED <<topicVars, nextId>>
       ELSE /\ PublishMessage(n, topics[n], nextId)
            /\ nextId' = nextId + 1
    /\ UNCHANGED <<topics, ntopics, subscribers, running, workerVars, lock,
                   dstate, handleVars, sess, sink>>
    /\ UNCHANGED envVars

\* The frames this model keeps of a websocket's outbound stream.
AckFrame(h) == [k |-> "ack", h |-> h, m |-> 0]
ReplayFrame(h, id) == [k |-> "replay", h |-> h, m |-> id]
LiveFrame(h, id) == [k |-> "live", h |-> h, m |-> id]

\* websocket.send_json(frame) on client c's session.
Emit(c, frame) ==
    IF trace THEN sink' = [sink EXCEPT ![c] = Append(@, frame)]
    ELSE UNCHANGED sink

\* The frame _send_error writes: {"type": "error", "code": code, ...}.
ErrorFrame(code) == [k |-> "error", h |-> 0, m |-> 0, code |-> code]

\* The error frames client c has been sent.
ErrorFrames(c) == SelectSeq(sink[c], LAMBDA f : f.k = "error")

\* WebSocketHandler._send_error(websocket, code, ...) on client c's session.
SendError(c, code) ==
    IF wire
    THEN /\ Len(ErrorFrames(c)) < MaxErrors
         /\ sink' = [sink EXCEPT ![c] = Append(@, ErrorFrame(code))]
    ELSE UNCHANGED sink

\* The larger of the peak so far and len(self._subscribers) once client c
\* has been added to subs.
PeakWith(pk, subs, c) ==
    LET k == Cardinality({x \in Clients : x = c \/ subs[x] # 0})
    IN  IF k > pk THEN k ELSE pk

\* Topic.add_subscriber: self._subscribers[client_id] = subscriber.
AddSubscriber(subs, c, h) == [subs EXCEPT ![c] = h]

\* WebSocketHandler._handle_subscribe up to its first suspension:
\* topic_exists, TopicManager.subscribe (lookup, new Subscriber,
\* add_subscriber, get_replay_messages) and the ack frame.
Subscribe(c, n, lastN) ==
    /\ sess[c].st = "idle"
    /\ IF topics[n] = 0
       THEN /\ ret' = [NoRet EXCEPT !.op = "subscribe", !.name = n,
                                     !.res = "notfound"]
            /\ SendError(c, "TOPIC_NOT_FOUND")
            /\ UNCHANGED <<subscribers, handleVars, sess, peak>>
       ELSE LET t == topics[n]
                h == nhandles + 1
                replay == GetLastN(ring[t], lastN)
            IN  /\ Cardinality({x \in 1..nhandles : hclient[x] = c}) < MaxSubs
                /\ lock[t] = "free"
                /\ nhandles' = h
                /\ hclient' = [hclient EXCEPT ![h] = c]
                /\ htopic' = [htopic EXCEPT ![h] = t]
                /\ IF trace
                   THEN /\ replayOf' = [replayOf EXCEPT ![h] = replay]
                        /\ attachPos' = [attachPos EXCEPT ![h] = nextId - 1]
                   ELSE UNCHANGED <<replayOf, attachPos>>
                /\ subscribers' = [subscribers EXCEPT
                                     ![t] = AddSubscriber(subscribers[t], c, h)]
                /\ Emit(c, AckFrame(h))
                /\ sess' = [sess EXCEPT ![c] =
                              IF replay = <<>> THEN IdleSess
                              ELSE [st |-> "replay", h |-> h, pend |-> replay]]
                /\ ret' = [NoRet EXCEPT !.op = "subscribe", !.name = n,
                                         !.res = "ok", !.val = Len(replay)]
                /\ peak' = IF track
                           THEN [peak EXCEPT ![t] = PeakWith(@, subscribers[t], c)]
                           ELSE peak
                /\ UNCHANGED closed
    /\ UNCHANGED <<topics, ntopics, topicVars, running, workerVars, lock,
                   dstate, nextId>>
    /\ UNCHANGED switchVars

\* _handle_subscribe for a session that already holds a handle on the topic
\* (last_n = 0): TopicManager.subscribe makes a new Subscriber and
\* add_subscriber stores it under the client id, in place of the old handle,
\* which is neither closed nor told.
SubscribeAgain(c, n) ==
    /\ sess[c].st = "idle"
    /\ topics[n] # 0 /\ subscribers[topics[n]][c] # 0
    /\ nhandles < Cardinality(Handles)
    /\ lock[topics[n]] = "free"
    /\ LET t == topics[n]
           h == nhandles + 1
       IN  /\ nhandles' = h
           /\ hclient' = [hclient EXCEPT ![h] = c]
           /\ htopic' = [htopic EXCEPT ![h] = t]
           /\ IF trace
              THEN /\ replayOf' = [replayOf EXCEPT ![h] = <<>>]
                   /\ attachPos' = [attachPos EXCEPT ![h] = nextId - 1]
              ELSE UNCHANGED <<replayOf, attachPos>>
           /\ subscribers' = [subscribers EXCEPT
                                ![t] = AddSubscriber(subscribers[t], c, h)]
           /\ Emit(c, AckFrame(h))
           /\ ret' = [NoRet EXCEPT !.op = "subscribe", !.name = n,
                                    !.res = "ok", !.val = 0]
    /\ UNCHANGED <<topics, ntopics, topicVars, running, workerVars, lock,
                   dstate, nextId, closed, sess>>
    /\ UNCHANGED envVars

\* _handle_subscribe's loop: one replay frame per send_json.
ReplayStep(c) ==
    /\ sess[c].st = "replay"
    /\ Emit(c, ReplayFrame(sess[c].h, Head(sess[c].pend)))
    /\ sess' = [sess EXCEPT ![c] =
                  IF Len(sess[c].pend) = 1 THEN IdleSess
                  ELSE [sess[c] EXCEPT !.pend = Tail(@)]]
    /\ ret' = NoRet
    /\ UNCHANGED <<topics, ntopics, subscribers, topicVars, running, workerVars,
                   lock, dstate, handleVars, nextId>>
    /\ UNCHANGED envVars

\* A removal that closes the handles and leaves them in the subscriber set.
RemoveSubscribersKeep(t, cs) ==
    /\ UNCHANGED subscribers
    /\ closed' = [h \in Handles |->
                    closed[h] \/ \E c \in cs : subscribers[t][c] = h]

\* Topic.remove_subscriber(client_id) for every client id in cs: pop the
\* handle stored under that id, whichever it is, and close it.
RemoveSubscribers(t, cs) ==
    /\ subscribers' = [subscribers EXCEPT
                         ![t] = [c \in Clients |-> IF c \in cs THEN 0 ELSE @[c]]]
    /\ closed' = [h \in Handles |->
                    closed[h] \/ \E c \in cs : subscribers[t][c] = h]

\* _handle_unsubscribe: TopicManager.unsubscribe, then ack or NOT_SUBSCRIBED.
Unsubscribe(c, n) ==
    /\ sess[c].st = "idle"
    /\ IF topics[n] # 0 /\ subscribers[topics[n]][c] # 0
       THEN /\ lock[topics[n]] = "free"
            /\ RemoveSubscribers(topics[n], {c})
            /\ ret' = NoRet
            /\ UNCHANGED sink
       ELSE /\ ret' = NoRet
            /\ SendError(c, "NOT_SUBSCRIBED")
            /\ UNCHANGED <<subscribers, closed>>
    /\ UNCHANGED <<topics, ntopics, topicVars, running, workerVars, lock, dstate,
                   nhandles, hclient, htopic, replayOf, attachPos, nextId, sess>>
    /\ UNCHANGED envVars

\* ---------------------------------------------------------------- worker
\* [s for s in subscribers if not s.is_closed()] over the snapshot.
ActiveHandles(t) == {h \in SubscriberHandles(t) : ~closed[h]}

\* Topic._flush_batch(b) up to `await asyncio.gather(*tasks)`: with nobody to
\* send to it returns at once and the worker goes on at pcAfter; otherwise one
\* send task per active handle of the snapshot, and the worker waits at pcFlush.
FlushBegin(t, b, pcFlush, pcAfter) ==
    IF ActiveHandles(t) = {}
    THEN /\ wpc' = [wpc EXCEPT ![t] = pcAfter]
         /\ batch' = [batch EXCEPT ![t] = <<>>]
         /\ sends' = [sends EXCEPT ![t] = [h \in Handles |-> NoSend]]
         /\ UNCHANGED lock
    ELSE /\ wpc' = [wpc EXCEPT ![t] = pcFlush]
         /\ batch' = [batch EXCEPT ![t] = b]
         /\ sends' = [sends EXCEPT ![t] = [h \in Handles |->
                        IF h \in ActiveHandles(t)
                        THEN [st |-> "run", pos |-> 0] ELSE NoSend]]
         /\ lock' = [lock EXCEPT ![t] = LockAfterSnapshot]

\* _delivery_worker: queue.get() returned a message; flush when the batch
\* has reached batch_size.
WorkerGet(t) ==
    /\ wpc[t] = "wait" /\ ~cancelReq[t]
    /\ queue[t] # <<>>
    /\ lock[t] = "free"
    /\ queue' = [queue EXCEPT ![t] = Tail(@)]
    /\ LET b == Append(batch[t], Head(queue[t]))
       IN  IF Len(b) >= BatchSize
           THEN FlushBegin(t, b, "flush", "wait")
           ELSE /\ batch' = [batch EXCEPT ![t] = b]
                /\ UNCHANGED <<wpc, sends, lock>>
    /\ ret' = NoRet
    /\ UNCHANGED <<topics, ntopics, subscribers, ring, published, msgCount,
                   dropped, enqueued, running, cancelReq, delivered, dstate,
                   handleVars, nextId, sess, sink>>
    /\ UNCHANGED envVars

\* _delivery_worker: wait_for timed out on an empty queue with a batch in hand.
WorkerTimeout(t) ==
    /\ wpc[t] = "wait" /\ ~cancelReq[t]
    /\ queue[t] = <<>> /\ batch[t] # <<>>
    /\ lock[t] = "free"
    /\ FlushBegin(t, batch[t], "flush", "wait")
    /\ ret' = NoRet
    /\ UNCHANGED <<topics, ntopics, subscribers, topicVars, running, cancelReq,
                   delivered, dstate, handleVars, nextId, sess, sink>>
    /\ UNCHANGED envVars

\* The send tasks of the flush in flight run unless the worker was cancelled
\* (cancelling the worker cancels the gather and with it every send task).
Sending(t, h) ==
    /\ wpc[t] \in {"flush", "cflush"} /\ ~cancelReq[t]
    /\ sends[t][h].st = "run"

\* Subscriber.send_batch: False at once when the handle is closed, else the
\* next message of the batch goes to the websocket.
SendStep(t, h) ==
    /\ Sending(t, h)
    /\ sends[t][h].pos < Len(batch[t])
    /\ IF sends[t][h].pos = 0 /\ closed[h]
       THEN /\ sends' = [sends EXCEPT ![t][h] = FailedSend]
            /\ UNCHANGED sink
       ELSE /\ sends' = [sends EXCEPT ![t][h].pos = @ + 1]
            /\ Emit(hclient[h], LiveFrame(h, batch[t][sends[t][h].pos + 1]))
    /\ ret' = NoRet
    /\ UNCHANGED <<topics, ntopics, subscribers, topicVars, running, wpc, batch,
                   cancelReq, delivered, lock, dstate, handleVars, nextId, sess>>
    /\ UNCHANGED envVars

\* Subscriber.send_batch: every message was sent, return True.
SendDone(t, h) ==
    /\ Sending(t, h)
    /\ sends[t][h].pos = Len(batch[t])
    /\ sends' = [sends EXCEPT ![t][h].st = "ok"]
    /\ ret' = NoRet
    /\ UNCHANGED <<topics, ntopics, subscribers, topicVars, running, wpc, batch,
                   cancelReq, delivered, lock, dstate, handleVars, nextId, sess,
                   sink>>
    /\ UNCHANGED envVars

\* Subscriber.send_batch: send_json raised; the handle is marked closed and
\* the send returns False.
SendFail(t, h) ==
    /\ Sending(t, h)
    /\ sends[t][h].pos < Len(batch[t])
    /\ ~(sends[t][h].pos = 0 /\ closed[h])
    /\ sends' = [sends EXCEPT ![t][h] = FailedSend]
    /\ closed' = [closed EXCEPT ![h] = TRUE]
    /\ ret' = NoRet
    /\ UNCHANGED <<topics, ntopics, subscribers, topicVars, running, wpc, batch,
                   cancelReq, delivered, lock, dstate, nhandles, hclient, htopic,
                   replayOf, attachPos, nextId, sess, sink>>
    /\ UNCHANGED envVars

\* Topic._send_with_timeout: wait_for timed out; the send is abandoned where
\* it is, the handle is closed and the result is False.
SendTimeout(t, h) ==
    /\ Sending(t, h)
    /\ sends' = [sends EXCEPT ![t][h] = FailedSend]
    /\ closed' = [closed EXCEPT ![h] = TRUE]
    /\ ret' = NoRet
    /\ UNCHANGED <<topics, ntopics, subscribers, topicVars, running, wpc, batch,
                   cancelReq, delivered, lock, dstate, nhandles, hclient, htopic,
                   replayOf, attachPos, nextId, sess, sink>>
    /\ UNCHANGED envVars

\* Every send of the flush taken for a success.
AllSentHandles(t) == {h \in Handles : sends[t][h].st # "none"}

\* No send of the flush taken for a success.
NoSentHandle(t) == {}

\* The handles of the flush's snapshot, and those whose send returned True.
SnapshotHandles(t) == {h \in Handles : sends[t][h].st # "none"}
SucceededHandles(t) == {h \in Handles : sends[t][h].st = "ok"}

\* A flush after which the worker keeps the batch it has just sent.
FlushEndKeepBatch(t) ==
    /\ wpc[t] \in {"flush", "cflush"} /\ ~cancelReq[t]
    /\ \A h \in SnapshotHandles(t) : sends[t][h].st \in {"ok", "fail"}
    /\ RemoveSubscribers(t, {hclient[h] : h \in SnapshotHandles(t) \ SucceededHandles(t)})
    /\ delivered' = [delivered EXCEPT
                       ![t] = @ + Len(batch[t]) * Cardinality(SucceededHandles(t))]
    /\ UNCHANGED batch
    /\ sends' = [sends EXCEPT ![t] = [h \in Handles |-> NoSend]]
    /\ wpc' = [wpc EXCEPT ![t] = IF wpc[t] = "flush" THEN "wait" ELSE "done"]
    /\ lock' = [lock EXCEPT ![t] = "free"]
    /\ ret' = NoRet
    /\ UNCHANGED <<topics, ntopics, topicVars, running, cancelReq, dstate,
                   nhandles, hclient, htopic, replayOf, attachPos, nextId, sess,
                   sink>>
    /\ UNCHANGED envVars

\* _flush_batch after the gather: remove_subscriber(client_id) for every
\* failed send, _messages_delivered += len(batch) * successes.  Back in the
\* worker, `batch = []` and the loop goes on; the flush made by the
\* CancelledError handler is followed by `break`.
FlushEnd(t) ==
    /\ wpc[t] \in {"flush", "cflush"} /\ ~cancelReq[t]
    /\ \A h \in SnapshotHandles(t) : sends[t][h].st \in {"ok", "fail"}
    /\ RemoveSubscribers(t, {hclient[h] : h \in SnapshotHandles(t) \ SucceededHandles(t)})
    /\ delivered' = [delivered EXCEPT
                       ![t] = @ + Len(batch[t]) * Cardinality(SucceededHandles(t))]
    /\ batch' = [batch EXCEPT ![t] = <<>>]
    /\ sends' = [sends EXCEPT ![t] = [h \in Handles |-> NoSend]]
    /\ wpc' = [wpc EXCEPT ![t] = IF wpc[t] = "flush" THEN "wait" ELSE "done"]
    /\ lock' = [lock EXCEPT ![t] = "free"]
    /\ ret' = NoRet
    /\ UNCHANGED <<topics, ntopics, topicVars, running, cancelReq, dstate,
                   nhandles, hclient, htopic, replayOf, attachPos, nextId, sess,
                   sink>>
    /\ UNCHANGED envVars

\* A CancelledError handler that leaves the loop without flushing.
BatchDroppedAtCancel(t) == <<>>

\* The batch the `except asyncio.CancelledError` handler flushes: the local
\* `batch`, which is only reset after a flush has returned.
BatchAtCancel(t) == batch[t]

\* _delivery_worker: CancelledError is raised where the worker is suspended,
\* in wait_for(queue.get()) or in a flush's gather; the handler flushes a
\* non-empty batch and leaves the loop.
WorkerCancelled(t) ==
    /\ cancelReq[t] /\ wpc[t] \in {"wait", "flush"}
    /\ cancelReq' = [cancelReq EXCEPT ![t] = FALSE]
    /\ IF BatchAtCancel(t) # <<>>
       THEN FlushBegin(t, BatchAtCancel(t), "cflush", "done")
       ELSE /\ wpc' = [wpc EXCEPT ![t] = "done"]
            /\ batch' = [batch EXCEPT ![t] = <<>>]
            /\ sends' = [sends EXCEPT ![t] = [h \in Handles |-> NoSend]]
            /\ lock' = [lock EXCEPT ![t] = "free"]
    /\ ret' = NoRet
    /\ UNCHANGED <<topics, ntopics, subscribers, topicVars, running, delivered,
                   dstate, handleVars, nextId, sess, sink>>
    /\ UNCHANGED envVars

\* ---------------------------------------------------------------- delete
\* A close_all_subscribers that clears the subscriber set without closing
\* the handles.
CloseAllUnclosed(t) ==
    /\ subscribers' = [subscribers EXCEPT ![t] = [c \in Clients |-> 0]]
    /\ UNCHANGED closed
    /\ ring' = [ring EXCEPT ![t] = <<>>]
    /\ queue' = [queue EXCEPT ![t] = <<>>]
    /\ published' = [published EXCEPT ![t] = 0]
    /\ msgCount' = [msgCount EXCEPT ![t] = 0]
    /\ dropped' = [dropped EXCEPT ![t] = 0]
    /\ enqueued' = [enqueued EXCEPT ![t] = 0]
    /\ delivered' = [delivered EXCEPT ![t] = 0]

\* Topic.close_all_subscribers after the worker has stopped: every handle is
\* closed and the subscriber set cleared.  delete_topic then returns and
\* drops the last reference to the Topic object, whose ring, queue and
\* counters are gone with it.
CloseAll(t) ==
    /\ subscribers' = [subscribers EXCEPT ![t] = [c \in Clients |-> 0]]
    /\ closed' = [h \in Handles |-> closed[h] \/ h \in SubscriberHandles(t)]
    /\ ring' = [ring EXCEPT ![t] = <<>>]
    /\ queue' = [queue EXCEPT ![t] = <<>>]
    /\ published' = [published EXCEPT ![t] = 0]
    /\ msgCount' = [msgCount EXCEPT ![t] = 0]
    /\ dropped' = [dropped EXCEPT ![t] = 0]
    /\ enqueued' = [enqueued EXCEPT ![t] = 0]
    /\ delivered' = [delivered EXCEPT ![t] = 0]

\* TopicManager.delete_topic up to `await self._delivery_task` (the endpoint
\* refuses the request once shutdown has begun): pop the
\* entry under the registry mutex, then stop_delivery_worker clears _running
\* and cancels the worker task.
DeleteTopic(n) ==
    /\ shut = "no"
    /\ IF topics[n] = 0
       THEN /\ ret' = CallRet([NoRet EXCEPT !.op = "delete", !.name = n,
                                             !.res = "notfound"])
            /\ UNCHANGED <<topics, running, cancelReq, dstate, subscribers, closed,
                           topicVars, delivered>>
       ELSE LET t == topics[n]
            IN  /\ topics' = RegistryPop(topics, n)
                /\ IF running[t]
                   THEN /\ running' = [running EXCEPT ![t] = FALSE]
                        /\ cancelReq' = [cancelReq EXCEPT ![t] = TRUE]
                        /\ dstate' = [dstate EXCEPT ![t] = "stopping"]
                        /\ ret' = NoRet
                        /\ UNCHANGED <<subscribers, closed, topicVars, delivered>>
                   ELSE /\ lock[t] = "free"
                        /\ CloseAll(t)
                        /\ dstate' = [dstate EXCEPT ![t] = "deleted"]
                        /\ ret' = CallRet([NoRet EXCEPT !.op = "delete",
                                                !.name = n, !.res = "ok"])
                        /\ UNCHANGED <<running, cancelReq>>
    /\ UNCHANGED <<ntopics, wpc, batch, sends, lock, nhandles, hclient, htopic,
                   replayOf, attachPos, nextId, sess, sink>>
    /\ UNCHANGED envVars

\* delete_topic once the worker task has ended: close_all_subscribers closes
\* and clears the subscriber set, and delete returns True.
DeleteFinish(t) ==
    /\ dstate[t] = "stopping" /\ wpc[t] = "done"
    /\ lock[t] = "free"
    /\ CloseAll(t)
    /\ dstate' = [dstate EXCEPT ![t] = "deleted"]
    /\ ret' = CallRet([NoRet EXCEPT !.op = "delete", !.val = t, !.res = "ok"])
    /\ UNCHANGED <<topics, ntopics, running, wpc, batch, cancelReq, sends, lock,
                   nhandles, hclient, htopic, replayOf, attachPos, nextId, sess,
                   sink>>
    /\ UNCHANGED envVars

\* ---------------------------------------------------------------- shutdown
\* The topics the registry holds: list(self._topics.values()).
RegistryTopics == {topics[n] : n \in Names} \ {0}

\* TopicManager.list_topics: the names the registry holds.
ListTopics == {n \in Names : topics[n] # 0}

\* TopicManager.get_stats: what it reports for a Topic.
GetStats(t) ==
    [message_count |-> msgCount[t], subscriber_count |-> SubscriberCount(t)]

\* The signal handler and the start of _graceful_shutdown: the application
\* stops accepting REST requests and new sessions.
ShutdownBegin ==
    /\ shut = "no"
    /\ shut' = "begun"
    /\ ret' = NoRet
    /\ UNCHANGED <<topics, ntopics, subscribers, topicVars, running, workerVars,
                   lock, dstate, handleVars, nextId, sess, sink, sessions, trace,
                   calls, rb, rlog, rread, wire, track, peak, http, auxVars>>

\* TopicManager.shutdown_all_topics up to its gather: stop_delivery_worker
\* on every Topic of the registry snapshot clears _running and cancels the
\* worker task.
ShutdownAll ==
    /\ shut = "begun"
    /\ shut' = "stopping"
    /\ running' = [t \in Topics |-> running[t] /\ t \notin RegistryTopics]
    /\ cancelReq' = [t \in Topics |->
                       cancelReq[t] \/ (t \in RegistryTopics /\ running[t])]
    /\ ret' = NoRet
    /\ UNCHANGED <<topics, ntopics, subscribers, topicVars, wpc, batch, sends,
                   delivered, lock, dstate, handleVars, nextId, sess, sink,
                   sessions, trace, calls, rb, rlog, rread, wire, track, peak, http, auxVars>>

\* A shutdown that ends by accepting requests and sessions again.
ShutdownFinishReopen ==
    /\ shut = "stopping"
    /\ \A t \in RegistryTopics : wpc[t] = "done"
    /\ shut' = "no"
    /\ ret' = NoRet
    /\ UNCHANGED <<topics, ntopics, subscribers, topicVars, running, workerVars,
                   lock, dstate, handleVars, nextId, sess, sink, sessions, trace,
                   calls, rb, rlog, rread, wire, track, peak, http, auxVars>>

\* shutdown_all_topics after its gather: every worker task of the snapshot
\* has ended, and _graceful_shutdown sets shutdown_event.
ShutdownFinish ==
    /\ shut = "stopping"
    /\ \A t \in RegistryTopics : wpc[t] = "done"
    /\ shut' = "done"
    /\ ret' = NoRet
    /\ UNCHANGED <<topics, ntopics, subscribers, topicVars, running, workerVars,
                   lock, dstate, handleVars, nextId, sess, sink, sessions, trace,
                   calls, rb, rlog, rread, wire, track, peak, http, auxVars>>

\* POST /topics once accepting_connections is False: HTTPException 503
\* before the name is looked at.
CreateRefused(n) ==
    /\ shut # "no"
    /\ ret' = CallRet([NoRet EXCEPT !.op = "create", !.name = n, !.res = "503"])
    /\ UNCHANGED <<topics, ntopics, subscribers, topicVars, running, workerVars,
                   lock, dstate, handleVars, nextId, sess, sink>>
    /\ UNCHANGED envVars

\* DELETE /topics/{name} once accepting_connections is False: HTTPException
\* 503 before TopicManager.delete_topic is called.
DeleteRefused(n) ==
    /\ shut # "no"
    /\ ret' = CallRet([NoRet EXCEPT !.op = "delete", !.name = n, !.res = "503"])
    /\ UNCHANGED <<topics, ntopics, subscribers, topicVars, running, workerVars,
                   lock, dstate, handleVars, nextId, sess, sink>>
    /\ UNCHANGED envVars

\* websocket_endpoint while accepting_connections is True: the connection of
\* a new client is handed to handle_connection, which accepts it.
Connect(c) ==
    /\ shut = "no"
    /\ c \notin sessions /\ sess[c].st = "idle"
    /\ sessions' = sessions \cup {c}
    /\ ret' = CallRet([NoRet EXCEPT !.op = "connect", !.name = c,
                                     !.res = "accepted"])
    /\ UNCHANGED <<topics, ntopics, subscribers, topicVars, running, workerVars,
                   lock, dstate, handleVars, nextId, sess, sink, trace, calls,
                   shut, rb, rlog, rread, wire, track, peak, http, auxVars>>

\* websocket_endpoint once accepting_connections is False: the websocket is
\* closed with code 1001 and no session begins.
ConnectRefused(c) ==
    /\ shut # "no"
    /\ c \notin sessions /\ sess[c].st = "idle"
    /\ sess' = [sess EXCEPT ![c] = GoneSess]
    /\ ret' = CallRet([NoRet EXCEPT !.op = "connect", !.name = c,
                                     !.res = "refused"])
    /\ UNCHANGED <<topics, ntopics, subscribers, topicVars, running, workerVars,
                   lock, dstate, handleVars, nextId, sink>>
    /\ UNCHANGED envVars

\* ---------------------------------------------------------------- POST /topics
\* The characters of a request's name: "a" stands for every letter and digit
\* and for underscore, hyphen and dot, "/" for every other character but the
\* newline.
Chars == {"a", "/", "\n"}
ClassChars == {"a"}

\* The names a request carries: every string of up to NameMax + 1 characters.
RequestNames == UNION {[1..k -> Chars] : k \in 0..(NameMax + 1)}

\* TopicCreate: name: str = Field(..., min_length=1, max_length=255).
TopicCreateValid(name) == Len(name) >= 1 /\ Len(name) <= NameMax

\* re.match(r'^[a-zA-Z0-9_\-\.]+$', name): one or more characters of the
\* class, then the end of the string or one newline that ends the string.
RegexMatch(name) ==
    LET body == IF Len(name) >= 1 /\ name[Len(name)] = "\n"
                THEN SubSeq(name, 1, Len(name) - 1)
                ELSE name
    IN  /\ Len(body) >= 1
        /\ \A i \in 1..Len(body) : body[i] \in ClassChars

\* validate_topic_name
ValidateTopicName(name) ==
    IF name = <<>> \/ Len(name) > NameMax THEN FALSE
    ELSE IF ~RegexMatch(name) THEN FALSE
    ELSE TRUE

\* The strings validate_topic_name is called with: every string of up to
\* NameMax + 2 characters.
ValidateNames == UNION {[1..k -> Chars] : k \in 0..(NameMax + 2)}

\* A call of validate_topic_name(name) and the value it returns.
Validate(name) ==
    /\ checked' = [name |-> name, result |-> ValidateTopicName(name)]
    /\ ret' = NoRet
    /\ UNCHANGED <<topics, ntopics, subscribers, topicVars, running, workerVars,
                   lock, dstate, handleVars, nextId, sess, sink, sessions,
                   trace, calls, shut, rb, rlog, rread, wire, track, peak, http,
                   replayBufferSize, held, thread>>

\* POST /topics with the body {"name": name}: FastAPI validates the body
\* against TopicCreate before it calls the endpoint and answers 422 when that
\* fails; the endpoint answers 503 once shutdown has begun, 400 when
\* validate_topic_name rejects the name, and else calls
\* TopicManager.create_topic and answers 201.
PostTopics(name) ==
    /\ IF ~TopicCreateValid(name)
       THEN /\ http' = [name |-> name, status |-> 422]
            /\ UNCHANGED <<topics, ntopics, running, wpc>>
       ELSE IF shut # "no"
       THEN /\ http' = [name |-> name, status |-> 503]
            /\ UNCHANGED <<topics, ntopics, running, wpc>>
       ELSE IF ~ValidateTopicName(name)
       THEN /\ http' = [name |-> name, status |-> 400]
            /\ UNCHANGED <<topics, ntopics, running, wpc>>
       ELSE /\ http' = [name |-> name, status |-> 201]
            /\ IF topics[name] = 0
               THEN /\ ntopics < MaxTopics
                    /\ ntopics' = ntopics + 1
                    /\ topics' = [topics EXCEPT ![name] = ntopics + 1]
                    /\ running' = [running EXCEPT ![ntopics + 1] = TRUE]
                    /\ wpc' = [wpc EXCEPT ![ntopics + 1] = "wait"]
               ELSE UNCHANGED <<topics, ntopics, running, wpc>>
    /\ ret' = NoRet
    /\ UNCHANGED <<subscribers, topicVars, batch, cancelReq, sends, lock,
                   delivered, dstate, handleVars, nextId, sess, sink, sessions,
                   trace, calls, shut, rb, rlog, rread, wire, track, peak,
                   auxVars>>

\* ---------------------------------------------------------------- mutexes
\* The operations callers run, each as the sequence of its lock operations
\* on the registry mutex and on the mutexes of one topic and its ring;
\* "await" is a point where the caller is suspended.
LockedOps ==
    {"create", "delete", "subscribe", "unsubscribe", "publish", "cleanup",
     "shutdown", "stats", "flush"}

Acq(m) == <<"acq", m>>
Rel(m) == <<"rel", m>>
Await == <<"await", "none">>

\* get_topic, list(self._topics.values()) and the like: the registry mutex
\* around one access to the map.
RegistryAccess == <<Acq("registry"), Rel("registry")>>
\* One `with self._lock` block of Topic that takes no other mutex.
TopicSection == <<Acq("topic"), Rel("topic")>>

\* A subscribe that keeps the registry mutex while it attaches to the topic.
LockProgramNested(op) ==
    IF op = "create" THEN RegistryAccess
    ELSE IF op = "delete" THEN RegistryAccess \o <<Await>> \o TopicSection
    ELSE IF op = "subscribe"
    THEN <<Acq("registry")>> \o TopicSection \o <<Rel("registry")>>
             \o <<Acq("ring"), Rel("ring")>>
    ELSE IF op = "unsubscribe" THEN RegistryAccess \o TopicSection
    ELSE IF op = "publish"
    THEN RegistryAccess
             \o <<Acq("topic"), Acq("ring"), Rel("ring"), Rel("topic")>>
             \o TopicSection
    ELSE IF op = "cleanup" THEN RegistryAccess \o TopicSection
    ELSE IF op = "shutdown" THEN RegistryAccess \o <<Await>>
    ELSE IF op = "stats" THEN RegistryAccess \o TopicSection \o TopicSection
    ELSE TopicSection \o TopicSection \o <<Await>> \o TopicSection
             \o TopicSection \o TopicSection

\* create_topic (391-399); delete_topic (410-417) and close_all_subscribers
\* (361-367); subscribe (449-457) with add_subscriber and get_last_n;
\* unsubscribe (464-468); publish (477-482) with publish_message (293-305,
\* the ring append inside the topic's critical section, the drop counted in
\* a second one); cleanup_subscriber (556-560); shutdown_all_topics
\* (569-574); get_stats (489-496); _flush_batch (191-243: batch size,
\* snapshot, the gather, latency, remove_subscriber, delivered count).
LockProgram(op) ==
    IF op = "create" THEN RegistryAccess
    ELSE IF op = "delete" THEN RegistryAccess \o <<Await>> \o TopicSection
    ELSE IF op = "subscribe"
    THEN RegistryAccess \o TopicSection \o <<Acq("ring"), Rel("ring")>>
    ELSE IF op = "unsubscribe" THEN RegistryAccess \o TopicSection
    ELSE IF op = "publish"
    THEN RegistryAccess
             \o <<Acq("topic"), Acq("ring"), Rel("ring"), Rel("topic")>>
             \o TopicSection
    ELSE IF op = "cleanup" THEN RegistryAccess \o TopicSection
    ELSE IF op = "shutdown" THEN RegistryAccess \o <<Await>>
    ELSE IF op = "stats" THEN RegistryAccess \o TopicSection \o TopicSection
    ELSE TopicSection \o TopicSection \o <<Await>> \o TopicSection
             \o TopicSection \o TopicSection

\* The lock operation a caller is about to make.
NextOp(th) ==
    IF thread[th].op = "idle" THEN <<"none", "none">>
    ELSE LockProgram(thread[th].op)[thread[th].pc]

\* A caller begins an operation.
CallOp(th, op) ==
    /\ thread[th].op = "idle"
    /\ thread' = [thread EXCEPT ![th] = [op |-> op, pc |-> 1]]
    /\ ret' = NoRet
    /\ UNCHANGED <<topics, ntopics, subscribers, topicVars, running, workerVars,
                   lock, dstate, handleVars, nextId, sess, sink, sessions,
                   trace, calls, shut, rb, rlog, rread, wire, track, peak, http,
                   replayBufferSize, held, checked>>

\* A caller makes its next lock operation: Lock.acquire blocks while the
\* mutex is held; after the last operation the call returns.
LockStep(th) ==
    /\ thread[th].op # "idle"
    /\ LET ins == NextOp(th)
       IN  IF ins[1] = "acq"
           THEN /\ held[ins[2]] = 0
                /\ held' = [held EXCEPT ![ins[2]] = th]
           ELSE IF ins[1] = "rel"
           THEN held' = [held EXCEPT ![ins[2]] = 0]
           ELSE UNCHANGED held
    /\ thread' = [thread EXCEPT ![th] =
                    IF thread[th].pc = Len(LockProgram(thread[th].op))
                    THEN IdleThread
                    ELSE [thread[th] EXCEPT !.pc = @ + 1]]
    /\ ret' = NoRet
    /\ UNCHANGED <<topics, ntopics, subscribers, topicVars, running, workerVars,
                   lock, dstate, handleVars, nextId, sess, sink, sessions,
                   trace, calls, shut, rb, rlog, rread, wire, track, peak, http,
                   replayBufferSize, checked>>

\* ---------------------------------------------------------------- disconnect
\* handle_connection's `finally` when the session ends (WebSocketDisconnect
\* in receive_text, or a transport error in a send of the handler):
\* cleanup_subscriber pops and closes the client's handle on every Topic of
\* the registry snapshot, and the websocket is closed.
Disconnect(c) ==
    /\ sess[c].st # "gone"
    /\ \A t \in RegistryTopics : lock[t] = "free"
    /\ subscribers' = [t \in Topics |->
                         IF t \in RegistryTopics
                         THEN [subscribers[t] EXCEPT ![c] = 0]
                         ELSE subscribers[t]]
    /\ closed' = [h \in Handles |->
                    closed[h] \/ \E t \in RegistryTopics : subscribers[t][c] = h]
    /\ sess' = [sess EXCEPT ![c] = GoneSess]
    /\ ret' = NoRet
    /\ UNCHANGED <<topics, ntopics, topicVars, running, workerVars, lock, dstate,
                   nhandles, hclient, htopic, replayOf, attachPos, nextId, sink>>
    /\ UNCHANGED envVars

\* ---------------------------------------------------------------- frames in
\* An inbound text frame, as far as _handle_message looks at it: whether
\* json.loads accepts it, whether the value is an object with a "type" key,
\* that type ("event" stands for every type that is no request), and whether
\* the message model of a request type would validate it.
RequestTypes == {"subscribe", "unsubscribe", "publish", "ping"}
FrameTypes == RequestTypes \cup {"event"}
InboundFrames ==
    {[json |-> FALSE, typed |-> FALSE, type |-> "event", valid |-> FALSE],
     [json |-> TRUE, typed |-> FALSE, type |-> "event", valid |-> FALSE]}
    \cup [json : {TRUE}, typed : {TRUE}, type : FrameTypes, valid : BOOLEAN]

\* A routing that validates the fields before it looks at the type.
FrameErrorValidateFirst(f) ==
    IF ~f.json THEN "INVALID_JSON"
    ELSE IF ~f.typed THEN "INVALID_MESSAGE"
    ELSE IF ~f.valid THEN "VALIDATION_ERROR"
    ELSE IF f.type \notin RequestTypes THEN "UNKNOWN_MESSAGE_TYPE"
    ELSE "none"

\* WebSocketHandler._handle_message: the code of the error frame a frame is
\* answered with before any handler acts on it ("none": the frame is routed
\* to its handler and validated).
FrameError(f) ==
    IF ~f.json THEN "INVALID_JSON"
    ELSE IF ~f.typed THEN "INVALID_MESSAGE"
    ELSE IF f.type \notin RequestTypes THEN "UNKNOWN_MESSAGE_TYPE"
    ELSE IF ~f.valid THEN "VALIDATION_ERROR"
    ELSE "none"

\* _receive_loop and _handle_message on a frame that is answered with an
\* error: one _send_error, and the loop goes back to receive_text.
BadFrame(c, f) ==
    /\ sess[c].st = "idle"
    /\ FrameError(f) # "none"
    /\ SendError(c, FrameError(f))
    /\ ret' = [op |-> "frame", name |-> "", res |-> FrameError(f), val |-> 0,
               frame |-> f]
    /\ UNCHANGED <<topics, ntopics, subscribers, topicVars, running, workerVars,
                   lock, dstate, handleVars, nextId, sess>>
    /\ UNCHANGED envVars

\* A publish handler that answers nothing when the topic is absent.
HandlePublishSilent(c, n) ==
    /\ sess[c].st = "idle"
    /\ IF topics[n] = 0
       THEN /\ ret' = [NoRet EXCEPT !.op = "publish", !.name = n,
                                     !.res = "notfound"]
            /\ UNCHANGED <<topicVars, nextId, sink>>
       ELSE /\ nextId <= MaxMsgs
            /\ PublishMessage(n, topics[n], nextId)
            /\ nextId' = nextId + 1
            /\ UNCHANGED sink
    /\ UNCHANGED <<topics, ntopics, subscribers, running, workerVars, lock,
                   dstate, handleVars, sess>>
    /\ UNCHANGED envVars

\* WebSocketHandler._handle_publish: TopicManager.publish, then the error
\* frame TOPIC_NOT_FOUND when it returned None, else the ack (an ack frame
\* is not among the frames kept in sink).
HandlePublish(c, n) ==
    /\ sess[c].st = "idle"
    /\ IF topics[n] = 0
       THEN /\ ret' = [NoRet EXCEPT !.op = "publish", !.name = n,
                                     !.res = "notfound"]
            /\ SendError(c, "TOPIC_NOT_FOUND")
            /\ UNCHANGED <<topicVars, nextId>>
       ELSE /\ nextId <= MaxMsgs
            /\ PublishMessage(n, topics[n], nextId)
            /\ nextId' = nextId + 1
            /\ UNCHANGED sink
    /\ UNCHANGED <<topics, ntopics, subscribers, running, workerVars, lock,
                   dstate, handleVars, sess>>
    /\ UNCHANGED envVars

\* A session's first subscribe frame: a later one for the same client id
\* would replace the handle, that is detach the subscriber.
SubscribeOnce(c, n, lastN) ==
    /\ \A h \in 1..nhandles : hclient[h] # c
    /\ Subscribe(c, n, lastN)

\* ---------------------------------------------------------------- Spec
Next ==
    \/ \E n \in Names : CreateTopic(n)
    \/ \E n \in Names : DeleteTopic(n)
    \/ \E t \in Topics : DeleteFinish(t)
    \/ \E n \in Names : Publish(n)
    \/ \E c \in sessions, n \in Names, lastN \in LastNs : Subscribe(c, n, lastN)
    \/ \E c \in sessions : ReplayStep(c)
    \/ \E c \in sessions, n \in Names : Unsubscribe(c, n)
    \/ \E t \in Topics : WorkerGet(t)
    \/ \E t \in Topics : WorkerTimeout(t)
    \/ \E t \in Topics, h \in Handles : SendStep(t, h)
    \/ \E t \in Topics, h \in Handles : SendDone(t, h)
    \/ \E t \in Topics, h \in Handles : SendFail(t, h)
    \/ \E t \in Topics, h \in Handles : SendTimeout(t, h)
    \/ \E t \in Topics : FlushEnd(t)
    \/ \E t \in Topics : WorkerCancelled(t)

\* One session against the broker, frames recorded.
Spec == Init /\ [][Next]_vars

\* The same steps with the engine's own state only.
CoreSpec == InitCore /\ [][Next]_vars

\* The same steps with every registry call and its result recorded.
CallSpec == InitCalls /\ [][Next]_vars

\* The broker's steps and the application's graceful shutdown.
NextShut ==
    \/ Next
    \/ ShutdownBegin
    \/ ShutdownAll
    \/ ShutdownFinish

\* One session against a broker that may be shut down.
ShutSpec == InitCore /\ [][NextShut]_vars

\* The control routes, new sessions and publishes against an application
\* that may be shut down, every call and its result recorded.
NextAdmin ==
    \/ \E n \in Names : CreateTopic(n)
    \/ \E n \in Names : DeleteTopic(n)
    \/ \E t \in Topics : DeleteFinish(t)
    \/ \E n \in Names : CreateRefused(n)
    \/ \E n \in Names : DeleteRefused(n)
    \/ \E c \in Clients : Connect(c)
    \/ \E c \in Clients : ConnectRefused(c)
    \/ \E n \in Names : Publish(n)
    \/ \E t \in Topics : WorkerGet(t)
    \/ \E t \in Topics : WorkerTimeout(t)
    \/ \E t \in Topics : WorkerCancelled(t)
    \/ ShutdownBegin
    \/ ShutdownAll
    \/ ShutdownFinish

AdminSpec == InitCalls /\ [][NextAdmin]_vars

\* A registry keyed by the names requests carry, no topic, no session.
InitHttp ==
    /\ topics = [n \in RequestNames |-> 0]
    /\ ntopics = 0
    /\ subscribers = [t \in Topics |-> [c \in Clients |-> 0]]
    /\ ring = [t \in Topics |-> <<>>]
    /\ queue = [t \in Topics |-> <<>>]
    /\ running = [t \in Topics |-> FALSE]
    /\ wpc = [t \in Topics |-> "none"]
    /\ batch = [t \in Topics |-> <<>>]
    /\ cancelReq = [t \in Topics |-> FALSE]
    /\ sends = [t \in Topics |-> [h \in Handles |-> NoSend]]
    /\ lock = [t \in Topics |-> "free"]
    /\ published = [t \in Topics |-> 0]
    /\ msgCount = [t \in Topics |-> 0]
    /\ delivered = [t \in Topics |-> 0]
    /\ dropped = [t \in Topics |-> 0]
    /\ enqueued = [t \in Topics |-> 0]
    /\ dstate = [t \in Topics |-> "live"]
    /\ nhandles = 0
    /\ hclient = [h \in Handles |-> "c1"]
    /\ htopic = [h \in Handles |-> 0]
    /\ closed = [h \in Handles |-> FALSE]
    /\ replayOf = [h \in Handles |-> <<>>]
    /\ attachPos = [h \in Handles |-> 0]
    /\ nextId = 1
    /\ sess = [c \in Clients |-> IdleSess]
    /\ sink = [c \in Clients |-> <<>>]
    /\ ret = NoRet
    /\ shut = "no"
    /\ rb = <<>>
    /\ rlog = <<>>
    /\ rread = NoRead
    /\ peak = [t \in Topics |-> 0]
    /\ http = NoRequest
    /\ held = [m \in Mutexes |-> 0]
    /\ thread = [th \in Threads |-> IdleThread]
    /\ checked = NoCheck
    /\ sessions = {}
    /\ trace = FALSE
    /\ calls = FALSE
    /\ wire = FALSE
    /\ track = FALSE
    /\ replayBufferSize = RingCap

\* Create requests with every name, before and after shutdown begins.
NextHttp ==
    \/ \E name \in RequestNames : PostTopics(name)
    \/ ShutdownBegin

HttpSpec == InitHttp /\ [][NextHttp]_vars

\* One session that may subscribe to its topic a second time, against a
\* worker whose sends may fail or time out.
NextResub ==
    \/ \E n \in Names : CreateTopic(n)
    \/ \E n \in Names : Publish(n)
    \/ \E c \in sessions, n \in Names : Subscribe(c, n, 0)
    \/ \E c \in sessions, n \in Names : SubscribeAgain(c, n)
    \/ \E t \in Topics : WorkerGet(t)
    \/ \E t \in Topics : WorkerTimeout(t)
    \/ \E t \in Topics, h \in Handles : SendStep(t, h)
    \/ \E t \in Topics, h \in Handles : SendDone(t, h)
    \/ \E t \in Topics, h \in Handles : SendFail(t, h)
    \/ \E t \in Topics, h \in Handles : SendTimeout(t, h)
    \/ \E t \in Topics : FlushEnd(t)

ResubSpec == InitCore /\ [][NextResub]_vars

\* validate_topic_name called with any string.
NextValidate == \E name \in ValidateNames : Validate(name)

ValidateSpec == InitCore /\ [][NextValidate]_vars

\* Two sessions, the engine's own state only, and rings that hold one
\* message more than RingCap.
InitOrder ==
    /\ InitBroker
    /\ sessions = Clients
    /\ trace = FALSE
    /\ calls = FALSE
    /\ wire = FALSE
    /\ track = FALSE
    /\ replayBufferSize = RingCap + 1

\* Two sessions that publish while topics are created and deleted, one
\* subscription, and the worker.
NextOrder ==
    \/ \E n \in Names : CreateTopic(n)
    \/ \E n \in Names : DeleteTopic(n)
    \/ \E t \in Topics : DeleteFinish(t)
    \/ \E c \in sessions, n \in Names : HandlePublish(c, n)
    \/ \E n \in Names : SubscribeOnce("c1", n, 0)
    \/ \E t \in Topics : WorkerGet(t)
    \/ \E t \in Topics : WorkerTimeout(t)
    \/ \E t \in Topics, h \in Handles : SendStep(t, h)
    \/ \E t \in Topics, h \in Handles : SendDone(t, h)
    \/ \E t \in Topics : FlushEnd(t)
    \/ \E t \in Topics : WorkerCancelled(t)

OrderSpec == InitOrder /\ [][NextOrder]_vars

\* Callers that run the operations of the registry and of one topic, lock
\* operation by lock operation.
NextLocks ==
    \/ \E th \in Threads, op \in LockedOps : CallOp(th, op)
    \/ \E th \in Threads : LockStep(th)

LockSpec == InitCore /\ [][NextLocks]_vars

\* Every client connected, the engine's own state only.
InitCoreAll ==
    /\ InitBroker
    /\ sessions = Clients
    /\ trace = FALSE
    /\ calls = FALSE
    /\ wire = FALSE
    /\ track = FALSE
    /\ replayBufferSize = RingCap

\* Sessions that subscribe once and end while topics are created, published
\* to and deleted; every send succeeds and no session unsubscribes.
NextSession ==
    \/ \E n \in Names : CreateTopic(n)
    \/ \E n \in Names : DeleteTopic(n)
    \/ \E t \in Topics : DeleteFinish(t)
    \/ \E n \in Names : Publish(n)
    \/ \E c \in sessions, n \in Names, lastN \in LastNs : SubscribeOnce(c, n, lastN)
    \/ \E c \in sessions : ReplayStep(c)
    \/ \E t \in Topics : WorkerGet(t)
    \/ \E t \in Topics : WorkerTimeout(t)
    \/ \E t \in Topics, h \in Handles : SendStep(t, h)
    \/ \E t \in Topics, h \in Handles : SendDone(t, h)
    \/ \E t \in Topics : FlushEnd(t)
    \/ \E t \in Topics : WorkerCancelled(t)
    \/ \E c \in sessions : Disconnect(c)

\* Sessions that come and go against the broker.
SessionSpec == InitCoreAll /\ [][NextSession]_vars

\* The steps of a broker that keeps its topics and its subscribers: no delete,
\* no unsubscribe, no second subscribe of a session, and no send that fails
\* or times out.
NextLive ==
    \/ \E n \in Names : CreateTopic(n)
    \/ \E n \in Names : Publish(n)
    \/ \E c \in sessions, n \in Names, lastN \in LastNs : SubscribeOnce(c, n, lastN)
    \/ \E c \in sessions : ReplayStep(c)
    \/ \E t \in Topics : WorkerGet(t)
    \/ \E t \in Topics : WorkerTimeout(t)
    \/ \E t \in Topics, h \in Handles : SendStep(t, h)
    \/ \E t \in Topics, h \in Handles : SendDone(t, h)
    \/ \E t \in Topics : FlushEnd(t)

\* The event loop runs every task that is ready and every timer that is due:
\* the worker's get, its batch timeout, each send and the end of the flush.
LiveFairness ==
    /\ WF_vars(\E t \in Topics : WorkerGet(t))
    /\ WF_vars(\E t \in Topics : WorkerTimeout(t))
    /\ WF_vars(\E t \in Topics, h \in Handles : SendStep(t, h))
    /\ WF_vars(\E t \in Topics, h \in Handles : SendDone(t, h))
    /\ WF_vars(\E t \in Topics : FlushEnd(t))

\* Every client connected to that broker, frames recorded.
LiveSpec == InitAll /\ [][NextLive]_vars /\ LiveFairness

\* That broker with sinks that may stall past send_timeout during a flush.
NextSlow ==
    \/ NextLive
    \/ \E t \in Topics, h \in Handles : SendTimeout(t, h)

SlowSpec == InitAll /\ [][NextSlow]_vars /\ LiveFairness

\* One session whose error frames are recorded, and nothing else of its
\* outbound stream.
InitWire ==
    /\ InitBroker
    /\ sessions = {"c1"}
    /\ trace = FALSE
    /\ calls = FALSE
    /\ wire = TRUE
    /\ track = FALSE
    /\ replayBufferSize = RingCap

\* The frames of a session, well-formed or not, while topics are created,
\* subscribed to and published to.
NextFrames ==
    \/ \E n \in Names : CreateTopic(n)
    \/ \E c \in sessions, f \in InboundFrames : BadFrame(c, f)
    \/ \E c \in sessions, n \in Names : HandlePublish(c, n)
    \/ \E c \in sessions, n \in Names : Subscribe(c, n, 0)
    \/ \E c \in sessions, n \in Names : Unsubscribe(c, n)

FrameSpec == InitWire /\ [][NextFrames]_vars

\* The subscribe and publish frames of a session against a registry whose
\* topics are created and deleted while their workers deliver.
NextWire ==
    \/ \E n \in Names : CreateTopic(n)
    \/ \E n \in Names : DeleteTopic(n)
    \/ \E t \in Topics : DeleteFinish(t)
    \/ \E c \in sessions, n \in Names : HandlePublish(c, n)
    \/ \E c \in sessions, n \in Names, lastN \in LastNs : Subscribe(c, n, lastN)
    \/ \E c \in sessions : ReplayStep(c)
    \/ \E t \in Topics : WorkerGet(t)
    \/ \E t \in Topics : WorkerTimeout(t)
    \/ \E t \in Topics, h \in Handles : SendStep(t, h)
    \/ \E t \in Topics, h \in Handles : SendDone(t, h)
    \/ \E t \in Topics : FlushEnd(t)
    \/ \E t \in Topics : WorkerCancelled(t)

WireSpec == InitWire /\ [][NextWire]_vars

\* Every client connected, the engine's own state and each Topic's peak
\* subscriber count recorded.
InitCount ==
    /\ InitBroker
    /\ sessions = Clients
    /\ trace = FALSE
    /\ calls = FALSE
    /\ wire = FALSE
    /\ track = TRUE
    /\ replayBufferSize = RingCap

\* Two sessions that subscribe and unsubscribe while topics are created,
\* published to and deleted, with sends that may fail or time out.
NextCount ==
    \/ \E n \in Names : CreateTopic(n)
    \/ \E n \in Names : DeleteTopic(n)
    \/ \E t \in Topics : DeleteFinish(t)
    \/ \E n \in Names : Publish(n)
    \/ \E c \in sessions, n \in Names : SubscribeOnce(c, n, 0)
    \/ \E c \in sessions, n \in Names : Unsubscribe(c, n)
    \/ \E t \in Topics : WorkerGet(t)
    \/ \E t \in Topics : WorkerTimeout(t)
    \/ \E t \in Topics, h \in Handles : SendStep(t, h)
    \/ \E t \in Topics, h \in Handles : SendDone(t, h)
    \/ \E t \in Topics, h \in Handles : SendFail(t, h)
    \/ \E t \in Topics, h \in Handles : SendTimeout(t, h)
    \/ \E t \in Topics : FlushEnd(t)
    \/ \E t \in Topics : WorkerCancelled(t)

CountSpec == InitCount /\ [][NextCount]_vars

\* Every coroutine of the server that is ready runs: the workers and their
\* sends, a cancellation that was requested, the rest of a delete and the
\* replay loop of a session.
ServerFairness ==
    /\ LiveFairness
    /\ WF_vars(\E t \in Topics : WorkerCancelled(t))
    /\ WF_vars(\E t \in Topics : DeleteFinish(t))
    /\ WF_vars(\E c \in sessions : ReplayStep(c))

\* One session against the broker, frames recorded, the server's coroutines
\* scheduled fairly.
FairSpec == Init /\ [][Next]_vars /\ ServerFairness

\* ---------------------------------------------------------------- RingBuffer
\* RingBuffer.append(x) on a buffer of capacity BufCap.
RingBufferAppend(x) ==
    /\ Len(rlog) < MaxAppends
    /\ rb' = BufferAppend(rb, x, BufCap)
    /\ rlog' = Append(rlog, x)
    /\ UNCHANGED <<topics, ntopics, subscribers, topicVars, running, workerVars,
                   lock, dstate, handleVars, nextId, sess, sink, sessions, trace,
                   calls, shut, rread, wire, track, peak, http, auxVars, ret>>

\* RingBuffer.get_last_n(n): the list returned is a new list.
RingBufferGetLastN(n) ==
    /\ rread' = [n |-> n, buf |-> rb, out |-> GetLastN(rb, n)]
    /\ UNCHANGED <<topics, ntopics, subscribers, topicVars, running, workerVars,
                   lock, dstate, handleVars, nextId, sess, sink, sessions, trace,
                   calls, shut, rb, rlog, wire, track, peak, http, auxVars, ret>>

NextRing ==
    \/ \E x \in Msgs : RingBufferAppend(x)
    \/ \E n \in 0..(BufCap + 1) : RingBufferGetLastN(n)

\* A RingBuffer of capacity BufCap under any appends and reads.
RingSpec == InitCore /\ [][NextRing]_vars

\* ---------------------------------------------------------------- frames
\* The frames handle h's subscription put on its client's websocket.
FramesOf(h, kinds) ==
    SelectSeq(sink[hclient[h]], LAMBDA f : f.h = h /\ f.k \in kinds)

\* The message ids of a sequence of frames.
Ids(fs) == [i \in 1..Len(fs) |-> fs[i].m]

LiveIds(h) == Ids(FramesOf(h, {"live"}))
ReplayIds(h) == Ids(FramesOf(h, {"replay"}))
EventIds(h) == Ids(FramesOf(h, {"replay", "live"}))

Created == 1..nhandles

\* ---------------------------------------------------------------- claims
\* C1: the messages a subscriber is sent through the live stream arrive in
\* publish order (message ids are allocated in publish order): no live frame
\* of a later message precedes a live frame of an earlier one.
C1_LiveInPublishOrder ==
    \A h \in Created :
        \A i, j \in 1..Len(LiveIds(h)) :
            i < j => LiveIds(h)[i] <= LiveIds(h)[j]

\* C2: the ids of the replay prefix subscribe returned for a handle are
\* disjoint from the ids the handle is sent afterwards by live flushes.
C2_ReplayDisjointFromLive ==
    \A h \in Created : Range(replayOf[h]) \cap Range(LiveIds(h)) = {}

\* C3: no subscriber is sent the same message id twice through the live
\* stream, wherever the shutdown's cancellation reaches the worker.
C3_NoLiveDuplicate ==
    \A h \in Created :
        \A i, j \in 1..Len(LiveIds(h)) :
            i # j => LiveIds(h)[i] # LiveIds(h)[j]

\* C4: attach is atomic with respect to publish, so a message published up
\* to the attach and still undelivered then (concurrent with it) reaches the
\* subscriber as a replay frame or as a live frame, never as both.
C4_ConcurrentMessageOnce ==
    \A h \in Created :
        \A m \in Msgs :
            m <= attachPos[h] =>
                ~(m \in Range(ReplayIds(h)) /\ m \in Range(LiveIds(h)))

\* C5: on a client's websocket the subscribe ack of a handle is followed at
\* once by its replay frames, consecutive and in order, with no live frame of
\* the subscription before or between them, and the ids of all its event
\* frames (replay, then live) are strictly increasing in publish order.
C5_AckReplayThenLive ==
    \A h \in Created :
        LET out == sink[hclient[h]]
            nrep == Len(ReplayIds(h))
        IN  /\ \A i \in 1..Len(out) :
                   out[i] = AckFrame(h) =>
                       \A j \in 1..nrep :
                           /\ i + j <= Len(out)
                           /\ out[i + j] = ReplayFrame(h, replayOf[h][j])
            /\ \A i, j \in 1..Len(EventIds(h)) :
                   i < j => EventIds(h)[i] < EventIds(h)[j]

\* The messages published since handle h attached, and those of them h has
\* been sent by live flushes, in the order sent.
IsPrefix(a, b) == Len(a) <= Len(b) /\ a = SubSeq(b, 1, Len(a))
PublishedSince(h) ==
    [i \in 1..(nextId - 1 - attachPos[h]) |-> attachPos[h] + i]
ReceivedSince(h) == SelectSeq(LiveIds(h), LAMBDA m : m > attachPos[h])

\* While nothing was dropped, an attached handle has been sent an initial
\* part of the messages published since its attach: no gap, no repeat.
C6_NoGapNoRepeat ==
    \A t \in Topics : \A h \in SubscriberHandles(t) :
        dropped[t] = 0 => IsPrefix(ReceivedSince(h), PublishedSince(h))

\* While nothing was dropped, every attached handle has been sent all of them.
C6_AllReceived ==
    \A t \in Topics : \A h \in SubscriberHandles(t) :
        dropped[t] = 0 => ReceivedSince(h) = PublishedSince(h)

\* C6: with the topic kept, the subscribers kept attached, every send
\* succeeding and no queue overflow, a subscriber is sent the messages
\* published after its attach each exactly once and in publish order (what it
\* has received of them is always a prefix of them), and eventually all of them.
C6_EventuallyExactlyOnceInOrder ==
    [](C6_NoGapNoRepeat) /\ []<>(C6_AllReceived)

\* Two subscribers attached before the first publish have both been sent
\* every message of the run, once and in order.
C6_Witness ==
    \E t \in Topics :
        /\ Cardinality(SubscriberHandles(t)) = 2
        /\ dropped[t] = 0 /\ nextId = MaxMsgs + 1
        /\ \A h \in SubscriberHandles(t) :
               attachPos[h] = 0 /\ LiveIds(h) = [i \in 1..MaxMsgs |-> i]

\* C7: in every reachable state a topic's published count is its enqueued
\* count plus its dropped count, and its ring holds the last
\* min(published, capacity) messages.
C7_PublishedIsEnqueuedPlusDropped ==
    \A t \in Topics :
        /\ published[t] = enqueued[t] + dropped[t]
        /\ Len(ring[t]) = (IF published[t] < RingCap THEN published[t] ELSE RingCap)

\* A topic that has both enqueued and dropped messages.
C7_Witness ==
    \E t \in Topics : enqueued[t] > 0 /\ dropped[t] > 0

\* C8: a publish that finds the delivery queue full leaves the queue as it
\* was, adds exactly one to dropped, still appends the message to the ring
\* (evicting the oldest when the ring is full) and returns the subscriber
\* count rather than an error.
C8_FullQueuePublish ==
    [][\A t \in Topics :
          (published'[t] = published[t] + 1 /\ Len(queue[t]) = QueueMax) =>
              /\ queue'[t] = queue[t]
              /\ dropped'[t] = dropped[t] + 1
              /\ enqueued'[t] = enqueued[t]
              /\ ring'[t] = (IF Len(ring[t]) = RingCap
                             THEN Append(Tail(ring[t]), nextId)
                             ELSE Append(ring[t], nextId))
              /\ ret'.op = "publish" /\ ret'.res = "ok"
              /\ ret'.val = Cardinality({c \in Clients : subscribers[t][c] # 0})
      ]_vars

\* A publish has just returned from a topic with a full queue, a drop counted
\* and a message evicted from the ring.
C8_Witness ==
    \E t \in Topics :
        /\ ret.op = "publish" /\ ret.res = "ok"
        /\ dropped[t] > 0 /\ Len(queue[t]) = QueueMax
        /\ published[t] > RingCap

\* C9: in every reachable state a publish can complete: whatever the worker
\* and its sends are doing, nothing publish needs is held across a wait.
C9_PublishNeverBlocked ==
    \A n \in Names : nextId <= MaxMsgs => ENABLED Publish(n)

\* A flush is in flight with a send that has not finished, on a topic that
\* is registered and can be published to.
C9_Witness ==
    \E n \in Names : \E h \in Handles :
        /\ topics[n] # 0 /\ nextId <= MaxMsgs
        /\ wpc[topics[n]] = "flush"
        /\ sends[topics[n]][h].st = "run"

\* C10: once delete has returned for a Topic, the registry never holds that
\* Topic again, no step attaches a subscriber to it or publishes to it, and
\* every publish or subscribe for a name with no registry entry returns
\* not-found.
C10_DeletedIsGone ==
    [][/\ \A t \in Topics :
              dstate[t] = "deleted" =>
                  /\ \A n \in Names : topics'[n] # t
                  /\ subscribers'[t] = subscribers[t]
                  /\ published'[t] = published[t]
                  /\ queue'[t] = queue[t]
                  /\ ring'[t] = ring[t]
       /\ \A n \in Names :
              (topics[n] = 0 /\ ret'.op \in {"publish", "subscribe"}
                    /\ ret'.name = n) => ret'.res = "notfound"
      ]_vars

\* A delete has returned and a later publish or subscribe for the name has
\* been answered not-found.
C10_Witness ==
    \E t \in Topics : \E n \in Names :
        /\ dstate[t] = "deleted" /\ topics[n] = 0
        /\ ret.name = n /\ ret.res = "notfound"

\* C11: once delete has returned for a Topic, no event frame of that topic,
\* live or replay, is written to any client's websocket.
C11_NoEventAfterDelete ==
    [][\A c \in Clients :
          Len(sink'[c]) > Len(sink[c]) =>
              LET f == sink'[c][Len(sink'[c])]
              IN  f.k \in {"replay", "live"} =>
                      dstate[htopic[f.h]] # "deleted"
      ]_vars

\* Every variable but ret.
AllButRet ==
    <<topics, ntopics, subscribers, ring, queue, running, wpc, batch, cancelReq,
      sends, lock, published, msgCount, delivered, dropped, enqueued, dstate,
      nhandles, hclient, htopic, closed, replayOf, attachPos, nextId, sess,
      sink, sessions, trace, calls, shut, rb, rlog, rread, wire, track, peak,
      http, auxVars>>

\* C12: a Topic whose delete has begun is not in the registry; when delete
\* returns success the worker has exited, the subscriber set is empty and every
\* handle that was in it is closed; delete of a name that is not in the
\* registry returns not-found and changes nothing.
C12_DeleteTerminates ==
    [][/\ \A t \in Topics : \A n \in Names :
              dstate'[t] # "live" => topics'[n] # t
       /\ (ret'.op = "delete" /\ ret'.res = "ok") =>
              LET t == ret'.val
              IN  /\ dstate[t] = "stopping" /\ dstate'[t] = "deleted"
                  /\ wpc'[t] = "done" /\ ~running'[t]
                  /\ \A c \in Clients : subscribers'[t][c] = 0
                  /\ \A c \in Clients :
                         subscribers[t][c] # 0 => closed'[subscribers[t][c]]
       /\ \A n \in Names :
              (ret'.op = "delete" /\ ret'.name = n /\ topics[n] = 0) =>
                  /\ ret'.res = "notfound"
                  /\ UNCHANGED AllButRet
       /\ (ret'.op = "delete" /\ ret'.res = "notfound") =>
              topics[ret'.name] = 0
      ]_vars

\* A delete has just returned success for a Topic that had a subscriber.
C12_Witness ==
    /\ ret.op = "delete" /\ ret.res = "ok"
    /\ dstate[ret.val] = "deleted"
    /\ \E h \in 1..nhandles : htopic[h] = ret.val /\ closed[h]

\* C14: create of a name that is in the registry returns success and changes
\* nothing: the same Topic, counters, ring, queue, subscriber set and worker.
C14_CreateIdempotent ==
    [][\A n \in Names :
          (ret'.op = "create" /\ ret'.name = n /\ topics[n] # 0) =>
              /\ ret'.res = "ok"
              /\ UNCHANGED AllButRet
      ]_vars

\* A create has just returned for a Topic that has messages and a subscriber.
C14_Witness ==
    /\ ret.op = "create" /\ ret.res = "ok"
    /\ topics[ret.name] # 0
    /\ published[topics[ret.name]] > 0
    /\ SubscriberCount(topics[ret.name]) > 0

\* The last k items of a sequence, in order.
LastK(q, k) == [i \in 1..k |-> q[Len(q) - k + i]]
MinOf(a, b) == IF a < b THEN a ELSE b

\* C16: the list a replay read of n returned is the last min(n, size) items
\* of the ring as it was at the read, in insertion order (empty for n = 0),
\* and appends made after the read do not alter it.
C16_ReplayIsLastMin ==
    rread.out = LastK(rread.buf, MinOf(rread.n, Len(rread.buf)))

\* A read of fewer items than the ring held, made on a ring that had already
\* evicted and has been appended to since.
C16_Witness ==
    /\ rread.n > 0 /\ rread.n < Len(rread.buf)
    /\ Len(rlog) > BufCap
    /\ rread.buf # rb

\* C17: after k appends a ring of capacity C holds exactly the most recent
\* min(k, C) appended items in insertion order.
C17_RingHoldsMostRecent ==
    /\ Len(rb) <= BufCap
    /\ rb = LastK(rlog, MinOf(Len(rlog), BufCap))

\* More items were appended than the ring holds: the oldest were evicted.
C17_Witness ==
    Len(rlog) > BufCap /\ Len(rb) = BufCap

\* The session of handle h has been told that its subscription ended: an
\* error frame for the subscription was written to its websocket, or the
\* session was closed.
Notified(h) ==
    \/ \E i \in 1..Len(sink[hclient[h]]) :
           sink[hclient[h]][i].k = "error" /\ sink[hclient[h]][i].h = h
    \/ sess[hclient[h]].st = "gone"

\* C13: a subscriber attached to a topic that is deleted eventually observes
\* the end of its subscription: an error frame about it or its session closed.
C13_DeletionObserved ==
    \A h \in Handles :
        (/\ h <= nhandles
         /\ dstate[htopic[h]] = "stopping"
         /\ subscribers[htopic[h]][hclient[h]] = h) ~> Notified(h)

\* C18: once a session has ended, no topic's subscriber set holds its client
\* id and every handle of that client is closed.
C18_EndedSessionDetached ==
    \A c \in Clients :
        sess[c].st = "gone" =>
            /\ \A t \in Topics : subscribers[t][c] = 0
            /\ \A h \in 1..nhandles : hclient[h] = c => closed[h]

\* C19: after shutdown_all has returned, every topic's worker has exited with
\* nothing left in its batch, every handle of every topic is closed and every
\* subscriber set is empty.
C19_ShutdownClosesSubscribers ==
    shut = "done" =>
        \A t \in RegistryTopics :
            /\ wpc[t] = "done" /\ batch[t] = <<>>
            /\ \A c \in Clients : subscribers[t][c] = 0
            /\ \A h \in 1..nhandles : htopic[h] = t => closed[h]

\* C20: a publish the registry has just accepted went to a topic whose
\* delivery worker is running: the Topic is neither being stopped nor stopped.
C20_AcceptedPublishHasWorker ==
    (ret.op = "publish" /\ ret.res = "ok") =>
        LET t == topics[ret.name]
        IN  running[t] /\ ~cancelReq[t] /\ wpc[t] \in {"wait", "flush"}

\* The flush of topic t ends in this step.
C15_FlushEnds(t) ==
    /\ wpc[t] = "flush" /\ wpc'[t] = "wait"
    /\ SnapshotHandles(t) # {}

\* The last k frames of the live stream of handle h.
C15_LastLive(h, k) == LastK(LiveIds(h), k)

\* At the end of a flush every handle whose send timed out is closed and out
\* of the subscriber set, and every other handle of the snapshot is attached,
\* open, and has been sent the whole batch.
C15_FlushIsolates ==
    \A t \in Topics :
        C15_FlushEnds(t) =>
            \A h \in SnapshotHandles(t) :
                IF sends[t][h].st = "fail"
                THEN /\ closed'[h]
                     /\ subscribers'[t][hclient[h]] = 0
                ELSE /\ ~closed'[h]
                     /\ subscribers'[t][hclient[h]] = h
                     /\ Len(LiveIds(h)) >= Len(batch[t])
                     /\ C15_LastLive(h, Len(batch[t])) = batch[t]

\* The topic has detached a slow consumer.
C15_SlowDetached(t) ==
    \E h \in 1..nhandles :
        htopic[h] = t /\ closed[h] /\ subscribers[t][hclient[h]] # h

\* On a topic that has detached a slow consumer and dropped nothing at its
\* queue, every attached handle has been sent all that was published since
\* its attach.
C15_FastReceivedAll ==
    \A t \in Topics : \A h \in SubscriberHandles(t) :
        (C15_SlowDetached(t) /\ dropped[t] = 0) =>
            ReceivedSince(h) = PublishedSince(h)

C21_Code(f) ==
    CASE ~f.json -> "INVALID_JSON"
      [] f.json /\ ~f.typed -> "INVALID_MESSAGE"
      [] f.json /\ f.typed /\ f.type \notin RequestTypes -> "UNKNOWN_MESSAGE_TYPE"
      [] OTHER -> "VALIDATION_ERROR"

\* The registry, the topics and the handles.
C21_BrokerState ==
    <<topics, ntopics, subscribers, topicVars, running, workerVars, lock,
      dstate, handleVars, nextId>>

\* C21: an inbound frame that is not JSON, has no type field, has an unknown
\* type or fails validation is answered with exactly one error frame, of the
\* code of its defect; the session stays open, at its receive loop, and the
\* registry, the topics and the subscriber handles are unchanged.
C21_BadFrameOneError ==
    [][ret'.op = "frame" =>
          \E c \in sessions :
              /\ sink'[c] = Append(sink[c], ErrorFrame(C21_Code(ret'.frame)))
              /\ \A d \in Clients \ {c} : sink'[d] = sink[d]
              /\ sess[c].st = "idle" /\ sess' = sess
              /\ UNCHANGED C21_BrokerState
      ]_vars

\* A session that was sent an error frame for each kind of defect it could
\* and has had a later subscribe frame accepted.
C21_Witness ==
    \E c \in sessions :
        /\ Len(ErrorFrames(c)) = MaxErrors
        /\ \A i \in 1..MaxErrors :
               ErrorFrames(c)[i].code \in {"INVALID_JSON", "VALIDATION_ERROR"}
        /\ ret.op = "subscribe" /\ ret.res = "ok"

\* C22: a subscribe or publish frame for a name that is not in the registry
\* is answered with one error frame TOPIC_NOT_FOUND, creates no handle,
\* publishes nothing and leaves the registry and every topic unchanged.
C22_AbsentTopicNotFound ==
    [][\A n \in Names :
          (topics[n] = 0 /\ ret'.op \in {"subscribe", "publish"}
                /\ ret'.name = n) =>
              /\ ret'.res = "notfound"
              /\ \E c \in sessions :
                     /\ sink'[c] = Append(sink[c], ErrorFrame("TOPIC_NOT_FOUND"))
                     /\ \A d \in Clients \ {c} : sink'[d] = sink[d]
              /\ sess' = sess
              /\ UNCHANGED C21_BrokerState
      ]_vars

\* A publish frame for a name whose Topic has been deleted, with messages in
\* it, was answered TOPIC_NOT_FOUND.
C22_Witness ==
    \E c \in sessions : \E t \in Topics :
        /\ dstate[t] = "deleted" /\ nextId > 1
        /\ ret.op = "publish" /\ ret.res = "notfound"
        /\ ErrorFrames(c) # <<>>
        /\ ErrorFrames(c)[Len(ErrorFrames(c))].code = "TOPIC_NOT_FOUND"

\* C23: in every reachable state of every topic, messages_published is at
\* least messages_dropped, and messages_delivered is at most
\* messages_published times the most subscribers the topic has had at once.
C23_DropAccountingClosure ==
    \A t \in Topics :
        /\ published[t] >= dropped[t]
        /\ delivered[t] <= published[t] * peak[t]

\* A topic that had two subscribers at once and has none now: one of its two
\* publishes was dropped at the full queue, the other delivered to both.
C23_Witness ==
    \E t \in Topics :
        /\ peak[t] = 2 /\ SubscriberCount(t) = 0
        /\ published[t] = 2 /\ dropped[t] = 1 /\ delivered[t] = 2

\* C25: a send_batch that fails or times out has not written a proper prefix
\* of the batch to its subscriber: a subscriber of a flush that is counted 0
\* has received none of the batch (or, at worst, all of it).
C25_SendBatchAllOrNothing ==
    [][\A t \in Topics : \A h \in Handles :
          (sends[t][h].st = "run" /\ sends'[t][h].st = "fail") =>
              sends[t][h].pos \in {0, Len(batch[t])}
      ]_vars

\* The step in which the flush of topic t returns.
C29_FlushReturns(t) ==
    /\ wpc[t] \in {"flush", "cflush"} /\ ~cancelReq[t]
    /\ wpc'[t] \in {"wait", "done"}

C30_FailedDetachedOnly ==
    [][\A t \in Topics :
          C29_FlushReturns(t) =>
              /\ \A h \in Handles :
                     sends[t][h].st = "fail" =>
                         closed'[h] /\ h \notin {subscribers'[t][c] : c \in Clients}
              /\ \A h \in Handles :
                     sends[t][h].st = "ok" =>
                         /\ closed'[h] = closed[h]
                         /\ subscribers'[t][hclient[h]] = subscribers[t][hclient[h]]
              /\ batch'[t] = <<>> /\ queue'[t] = queue[t]
              /\ \A h \in Handles : sends'[t][h] = NoSend
      ]_vars

\* A flush of a two-message batch that is about to return: of its two sends
\* one has failed, its handle closed and still in the subscriber set, and
\* one has succeeded.
C30_Witness ==
    \E t \in Topics : \E hs, hf \in 1..nhandles :
        /\ wpc[t] = "flush" /\ ~cancelReq[t] /\ batch[t] = <<1, 2>>
        /\ sends[t][hs].st = "fail" /\ closed[hs]
        /\ subscribers[t][hclient[hs]] = hs
        /\ sends[t][hf].st = "ok" /\ ~closed[hf]
        /\ subscribers[t][hclient[hf]] = hf

\* C24: under any interleaving of create, delete and list calls every create
\* returns success with its name registered; a create of an absent name
\* constructs one Topic and starts its worker, a create of a registered name
\* constructs nothing and starts nothing, and no other step starts or restarts
\* a worker; a delete returns success for a Topic it unregistered itself,
\* once per Topic, and a delete that finds the name absent (another delete of
\* it may still be waiting for the worker) returns not-found; once no
\* constructed Topic is live any more the list is empty.
C24_ConcurrentRegistryCalls ==
    [][/\ ret'.op = "create" =>
              /\ ret'.res = "ok"
              /\ ret'.name \in ListTopics'
              /\ IF topics[ret'.name] = 0
                 THEN /\ ntopics' = ntopics + 1
                      /\ topics'[ret'.name] = ntopics'
                      /\ wpc[ntopics'] = "none" /\ wpc'[ntopics'] = "wait"
                      /\ running'[ntopics']
                 ELSE /\ ntopics' = ntopics /\ topics' = topics
                      /\ wpc' = wpc /\ running' = running
       /\ \A t \in Topics :
              /\ (wpc[t] = "none" /\ wpc'[t] # "none") =>
                     ret'.op = "create" /\ t = ntopics' /\ ntopics' = ntopics + 1
              /\ wpc[t] = "done" => wpc'[t] = "done"
              /\ dstate[t] = "deleted" => dstate'[t] = "deleted"
              /\ (dstate[t] = "live" /\ dstate'[t] # "live") =>
                     \E n \in Names : topics[n] = t /\ topics'[n] = 0
              /\ (dstate[t] # "deleted" /\ dstate'[t] = "deleted") =>
                     ret'.op = "delete" /\ ret'.res = "ok"
       /\ (ret'.op = "delete" /\ ret'.res = "ok") =>
              \E t \in Topics : dstate[t] # "deleted" /\ dstate'[t] = "deleted"
       /\ (ret'.op = "delete" /\ ret'.res = "notfound") =>
              /\ ret'.name \notin ListTopics
              /\ dstate' = dstate /\ topics' = topics
       /\ (\A t \in 1..ntopics' : dstate'[t] # "live") => ListTopics' = {}
      ]_vars

\* A delete has just returned not-found while an earlier delete of the name
\* is still waiting for the worker to end, after two Topics were constructed
\* for the name.
C24_Witness ==
    /\ ret.op = "delete" /\ ret.res = "notfound"
    /\ ntopics = 2 /\ ListTopics = {}
    /\ dstate[1] = "deleted" /\ dstate[2] = "stopping"

\* C26: while a send_batch to a session is between two frames of its batch,
\* the only frame written to that session is the send's own next frame: no
\* ack, replay, error or pong frame of the session layer and no frame of
\* another send_batch.
C26_SinkExclusive ==
    [][\A t \in Topics : \A h \in Handles :
          (/\ Sending(t, h)
           /\ sends[t][h].pos >= 1 /\ sends[t][h].pos < Len(batch[t])
           /\ sink'[hclient[h]] # sink[hclient[h]]) =>
              /\ sends'[t][h].pos = sends[t][h].pos + 1
              /\ sink'[hclient[h]] =
                     Append(sink[hclient[h]], LiveFrame(h, batch[t][sends'[t][h].pos]))
      ]_vars

\* C27: once graceful shutdown has begun the application never accepts
\* again; every create request and every delete request received from then
\* on is answered 503 and changes nothing, the registry stays as it is, and
\* every new connection is refused: no session begins.
C27_ShutdownRefuses ==
    [][shut # "no" =>
          /\ shut' # "no"
          /\ ret'.op = "create" => ret'.res = "503" /\ UNCHANGED AllButRet
          /\ (ret'.op = "delete" /\ ret'.name \in Names) =>
                 ret'.res = "503" /\ UNCHANGED AllButRet
          /\ topics' = topics /\ ntopics' = ntopics
          /\ ret'.op = "connect" => ret'.res = "refused"
          /\ sessions' = sessions
      ]_vars

\* Shutdown has completed with a topic in the registry, and a delete
\* request for it has just been answered 503.
C27_Witness ==
    /\ shut = "done"
    /\ ret.op = "delete" /\ ret.res = "503"
    /\ ret.name \in ListTopics

\* The topic-name grammar: one to NameMax characters, each a letter, a digit,
\* an underscore, a hyphen or a dot.
C28_InGrammar(name) ==
    /\ Len(name) >= 1 /\ Len(name) <= NameMax
    /\ \A i \in 1..Len(name) : name[i] \in ClassChars

\* C28: a create request handled while the application accepts requests is
\* answered 400 and leaves the registry as it is when its name is outside
\* the grammar, and is answered 201 with the name registered when it is
\* inside.
C28_NameGrammarEnforced ==
    [][(http' # http /\ shut = "no") =>
          IF C28_InGrammar(http'.name)
          THEN http'.status = 201 /\ topics'[http'.name] # 0
          ELSE http'.status = 400 /\ topics' = topics
      ]_vars

\* C31: the topic mutex is free whenever a flush is waiting for its sends:
\* the snapshot is taken and the mutex released before the first send is
\* created, and it is not taken again before the last send has ended, so a
\* subscribe or an unsubscribe on the topic is never kept waiting by a send.
C31_MutexFreeDuringSends ==
    \A t \in Topics :
        /\ (\E h \in Handles : sends[t][h].st # "none") => lock[t] = "free"
        /\ wpc[t] \in {"flush", "cflush"} => lock[t] = "free"

\* A send of a flush is under way, one frame of a two-message batch written,
\* and its subscriber has been detached from the topic in the meantime.
C31_Witness ==
    \E t \in Topics : \E h \in 1..nhandles :
        /\ wpc[t] = "flush" /\ Len(batch[t]) = 2
        /\ sends[t][h] = [st |-> "run", pos |-> 1]
        /\ subscribers[t][hclient[h]] = 0

\* C33: in every reachable state the ingest queue of a topic holds at most
\* its capacity, the replay ring at most its capacity and the worker's batch
\* at most batch_size messages; a worker that waits for the queue holds
\* fewer than batch_size, the full batch having been flushed before the next
\* dequeue.
C33_BoundedMemory ==
    \A t \in Topics :
        /\ Len(queue[t]) <= QueueMax
        /\ Len(ring[t]) <= RingCap
        /\ Len(batch[t]) <= BatchSize
        /\ wpc[t] = "wait" => Len(batch[t]) < BatchSize

\* A full batch is being flushed while the ring, which has evicted a
\* message, is at capacity.
C33_Witness ==
    \E t \in Topics :
        /\ wpc[t] = "flush" /\ Len(batch[t]) = BatchSize
        /\ Len(ring[t]) = RingCap /\ published[t] > RingCap

C39_DeleteClosesAccounting ==
    [][\A t \in Topics :
          (dstate[t] # "deleted" /\ dstate'[t] = "deleted") =>
              /\ queue[t] = <<>> /\ batch[t] = <<>>
              /\ published[t] = enqueued[t] + dropped[t]
      ]_vars

\* C40: as long as a Topic exists its counters messages_published,
\* messages_delivered and messages_dropped never decrease, and in every
\* reachable state the message_count that stats reports for it equals
\* messages_published.
C40_CountersMonotone ==
    [][\A t \in Topics :
          /\ GetStats(t).message_count' = published'[t]
          /\ dstate'[t] # "deleted" =>
                 /\ published'[t] >= published[t]
                 /\ delivered'[t] >= delivered[t]
                 /\ dropped'[t] >= dropped[t]
                 /\ msgCount'[t] >= msgCount[t]
      ]_vars

\* A topic that has counted two publishes, one of them dropped on a full
\* queue and the other delivered to a subscriber.
C40_Witness ==
    \E t \in Topics :
        /\ dstate[t] = "live"
        /\ published[t] = 2 /\ dropped[t] = 1 /\ delivered[t] = 1
        /\ GetStats(t).message_count = 2

\* C37: a live frame of a subscription is written to a client only while
\* the handle is in the topic's subscriber set: once an unsubscribe has
\* removed it, the flush in flight whose snapshot holds the handle writes
\* nothing more to that client.
C37_NoFrameAfterDetach ==
    [][\A c \in Clients :
          sink'[c] # sink[c] =>
              LET f == sink'[c][Len(sink'[c])]
              IN  f.k = "live" => subscribers[htopic[f.h]][c] = f.h
      ]_vars

\* C38: the subscriber set of a topic holds at most one handle per client
\* id, and the failure handling of a flush closes and removes only handles
\* whose send in that flush failed: a handle that replaced one of them in
\* the subscriber set while the flush was in flight is left as it is.
C38_OnlyFailedHandleDetached ==
    [][\A t \in Topics :
          C29_FlushReturns(t) =>
              \A h \in Handles :
                  sends[t][h].st # "fail" =>
                      /\ closed'[h] = closed[h]
                      /\ subscribers[t][hclient[h]] = h =>
                             subscribers'[t][hclient[h]] = h
      ]_vars

\* C35: validate_topic_name returns true exactly for the strings of the
\* grammar, one to NameMax characters of the class, and false for every
\* other string, a string that ends in a newline included.
C35_ValidateIsGrammar ==
    checked.result <=> C28_InGrammar(checked.name)

\* The messages the worker of topic t has taken and not yet let go of,
\* followed by those waiting in the ingest queue; and whether a sequence of
\* message ids is in publish order.
C36_Pending(t) == batch[t] \o queue[t]
C36_InPublishOrder(q) == \A i, j \in 1..Len(q) : i < j => q[i] < q[j]

C32_Holds(th) == {m \in Mutexes : held[m] = th}
C32_Runnable(th) ==
    /\ thread[th].op # "idle"
    /\ NextOp(th)[1] = "acq" => held[NextOp(th)[2]] = 0

\* C32: a caller that holds the registry mutex holds no other mutex and its
\* next lock operation is the release of it; the registry mutex is requested
\* only by a caller that holds nothing, the topic mutex only by one that
\* holds nothing, the ring mutex only by one that holds nothing or the topic
\* mutex; nothing is held at a suspension; and whenever a caller is inside
\* an operation, some caller can make its next lock operation.
C32_LockOrderNoDeadlock ==
    /\ \A th \in Threads :
           /\ held["registry"] = th =>
                  C32_Holds(th) = {"registry"} /\ NextOp(th) = Rel("registry")
           /\ NextOp(th) = Acq("registry") => C32_Holds(th) = {}
           /\ NextOp(th) = Acq("topic") => C32_Holds(th) = {}
           /\ NextOp(th) = Acq("ring") => C32_Holds(th) \subseteq {"topic"}
           /\ (NextOp(th) = Await \/ thread[th].op = "idle") => C32_Holds(th) = {}
    /\ (\E th \in Threads : thread[th].op # "idle") =>
           \E th \in Threads : C32_Runnable(th)

\* A publish is inside its critical section, holding the topic mutex and
\* the ring mutex, while another caller's subscribe waits for the topic mutex
\* with the registry mutex free.
C32_Witness ==
    \E a, b \in Threads :
        /\ thread[a].op = "publish" /\ C32_Holds(a) = {"topic", "ring"}
        /\ thread[b].op = "subscribe" /\ NextOp(b) = Acq("topic")
        /\ held["registry"] = 0

====
